---- MODULE Spec2Model ----
(***************************************************************************)
(* Model of the deduction solver of Demon_Deduce: the role catalog and the *)
(* statement predicates of src/src/roles.rs, and the search and corruption *)
(* engines of src/src/solver.rs.                                           *)
(*                                                                         *)
(* Seats are numbered from 0 as in the source; a Rust slice is a TLA+      *)
(* sequence, so seat i of slice s is s[i + 1] (written At(s, i)).          *)
(* Option<Role>::None is the string "None"; Option<usize>::None is -1.    *)
(***************************************************************************)
EXTENDS Integers, Sequences, FiniteSets, TLC

(***************************************************************************)
(* Sequence helpers (Rust slice and iterator operations).                  *)
(***************************************************************************)
At(s, i) == s[i + 1]

Range(s) == {s[k] : k \in DOMAIN s}

contains(s, r) == \E k \in DOMAIN s : s[k] = r

RECURSIVE filter_group(_, _)
RECURSIVE Flatten(_)
Flatten(ss) == IF ss = <<>> THEN <<>> ELSE Head(ss) \o Flatten(Tail(ss))

MinOf(S) == CHOOSE x \in S : \A y \in S : x <= y

(***************************************************************************)
(* Role catalog: src/src/roles.rs, enum Role and impl Role.                *)
(***************************************************************************)
Role ==
    {"Alchemist", "Architect", "Baker", "Bard", "Bishop", "Confessor", "Dreamer",
     "Druid", "Empress", "Enlightened", "FortuneTeller", "Gemcrafter", "Hunter",
     "Jester", "Judge", "Knight", "Knitter", "Lover", "Medium", "Oracle", "Poet",
     "Scout", "Slayer", "Witness",
     "Bombardier", "DoppelGanger", "Drunk", "PlagueDoctor", "Wretch",
     "Counsellor", "Minion", "Poisoner", "Puppet", "Puppeteer", "TwinMinion", "Witch",
     "Baa", "Lilis", "Pooka"}

group(r) ==
    IF r \in {"Alchemist", "Architect", "Baker", "Bard", "Bishop", "Confessor",
              "Dreamer", "Druid", "Empress", "Enlightened", "FortuneTeller",
              "Gemcrafter", "Hunter", "Jester", "Judge", "Knight", "Knitter",
              "Lover", "Medium", "Oracle", "Poet", "Scout", "Slayer", "Witness"}
    THEN "Villager"
    ELSE IF r \in {"Bombardier", "DoppelGanger", "PlagueDoctor", "Wretch", "Drunk"}
    THEN "Outcast"
    ELSE IF r \in {"Counsellor", "Minion", "Poisoner", "Puppet", "Puppeteer",
                   "TwinMinion", "Witch"}
    THEN "Minion"
    ELSE "Demon"

alignment(r) ==
    IF r \in {"Baa", "Counsellor", "Lilis", "Minion", "Poisoner", "Pooka", "Puppet",
              "Puppeteer", "TwinMinion", "Witch"}
    THEN "Evil"
    ELSE "Good"

\* lying without the two exceptions: a role lies when it is Evil.
lying_when_evil(r) == alignment(r) = "Evil"

lying(r) ==
    r \in {"Baa", "Counsellor", "Drunk", "Lilis", "Minion", "Poisoner", "Pooka",
           "Puppeteer", "TwinMinion", "Witch"}

filter_group(s, g) ==
    IF s = <<>> THEN <<>>
    ELSE IF group(Head(s)) = g THEN <<Head(s)>> \o filter_group(Tail(s), g)
    ELSE filter_group(Tail(s), g)

(***************************************************************************)
(* Geometry of the circular table: src/src/roles.rs, lines 1382-1479.      *)
(***************************************************************************)
neighbor_indexes(len, position, offset) ==
    <<(position + len - offset) % len, (position + offset) % len>>

\* position + len - offset is computed in usize: when it is negative a
\* build with overflow checks panics, and a build without them wraps, which
\* gives the index above for the tables on which it happens (len = 1).
neighbor_indexes_overflows(len, position, offset) == position + len < offset

count_evil(roles) == Cardinality({k \in DOMAIN roles : alignment(roles[k]) = "Evil"})

count_neighbor_evil(true_roles, position, offset) ==
    LET nb == neighbor_indexes(Len(true_roles), position, offset)
    IN  count_evil(<<At(true_roles, nb[1]), At(true_roles, nb[2])>>)

closest_evil_direction(true_roles, position) ==
    LET len == Len(true_roles)
        max_offset == (len + 1) \div 2
        left_evil(o) ==
            alignment(At(true_roles, neighbor_indexes(len, position, o)[1])) = "Evil"
        right_evil(o) ==
            alignment(At(true_roles, neighbor_indexes(len, position, o)[2])) = "Evil"
        hits == {o \in 1..max_offset : left_evil(o) \/ right_evil(o)}
    IN  IF hits = {} THEN "Equidistant"
        ELSE LET o == MinOf(hits)
             IN  IF left_evil(o) /\ right_evil(o) THEN "Equidistant"
                 ELSE IF left_evil(o) THEN "CounterClockwise"
                 ELSE "Clockwise"

\* closest_evil_distance with the fallback of the earlier code: 1 when no
\* seat is Evil.
closest_evil_distance_legacy(true_roles, position) ==
    LET max_index == (Len(true_roles) + 1) \div 2
        found == {i \in 1..max_index : count_neighbor_evil(true_roles, position, i) > 0}
    IN  IF found = {} THEN 1 ELSE MinOf(found)

closest_evil_distance(true_roles, position) ==
    LET max_index == (Len(true_roles) + 1) \div 2
        found == {i \in 1..max_index : count_neighbor_evil(true_roles, position, i) > 0}
    IN  IF found = {} THEN Len(true_roles) ELSE MinOf(found)

closest_corrupt_distance(corruptions, position) ==
    LET len == Len(corruptions)
        max_distance == len \div 2 + 1
        found == {d \in 1..max_distance :
                     \E k \in 1..2 :
                         At(corruptions, neighbor_indexes(len, position, d)[k])}
    IN  IF found = {} THEN -1 ELSE MinOf(found)

count_evil_pairs(true_roles) ==
    Cardinality({k \in 1..(Len(true_roles) - 1) :
                    alignment(true_roles[k]) = "Evil"
                    /\ alignment(true_roles[k + 1]) = "Evil"})

count_side_evils(true_roles) ==
    LET len == Len(true_roles)
        half == len \div 2
        second_half_start == IF len % 2 = 0 THEN half ELSE half + 1
        right_evil_count ==
            Cardinality({i \in 0..(half - 1) : alignment(At(true_roles, i)) = "Evil"})
        left_evil_count ==
            Cardinality({i \in second_half_start..(len - 2) :
                            alignment(At(true_roles, i)) = "Evil"})
    IN  IF left_evil_count > right_evil_count THEN "Left"
        ELSE IF left_evil_count < right_evil_count THEN "Right"
        ELSE "Equal"

(***************************************************************************)
(* Statements: src/src/roles.rs, enum RoleStatement and the per-role       *)
(* statement structs.  A statement is a record whose kind is the variant   *)
(* and whose other fields are the fields of the variant's struct; an enum  *)
(* payload (Architect, Confessor, Enlightened) is the field v.  A          *)
(* TargetIndexes bitmap is the set of the seats whose bit is set.          *)
(***************************************************************************)
NoStatement == [kind |-> "NoStatement"]

(***************************************************************************)
(* can_produce_statement, src/src/roles.rs lines 1487-1985.  The roles     *)
(* with an arm of their own in the two matches; every other visible role   *)
(* reaches the arm "other => panic!(...)" of lines 1730 and 1979.          *)
(***************************************************************************)
statement_roles ==
    {"Alchemist", "Architect", "Bard", "Bishop", "Confessor", "Dreamer", "Druid",
     "Empress", "Enlightened", "FortuneTeller", "Gemcrafter", "Hunter", "Jester",
     "Judge", "Knitter", "Lover", "Medium", "Oracle", "Scout", "Slayer",
     "PlagueDoctor", "Bombardier", "Wretch", "Knight"}

can_produce_statement_panics(visible_role) == visible_role \notin statement_roles

can_produce_lying(visible_role, true_roles, disguised_roles, corruptions, drunk_uncorruptions, position, statement) ==
    LET st == statement
        k == statement.kind
        evil(i) == alignment(At(true_roles, i)) = "Evil"
    IN  CASE visible_role = "Alchemist" ->
                 k = "Alchemist" /\ st.corrupt_count # 0
          [] visible_role = "Architect" ->
                 st # [kind |-> "Architect", v |-> count_side_evils(true_roles)]
          [] visible_role = "Bard" ->
                 LET closest_distance == closest_corrupt_distance(corruptions, position)
                 IN  k = "Bard"
                     /\ IF st.distance # -1
                        THEN st.distance #
                                 (IF closest_distance = -1 THEN st.distance + 1
                                  ELSE closest_distance)
                             /\ st.distance <= (Len(true_roles) + 1) \div 2
                        ELSE closest_distance # -1
          [] visible_role = "Bishop" ->
                 k = "Bishop"
                 /\ \A i \in st.target_indexes : group(At(true_roles, i)) = "Villager"
          [] visible_role = "Confessor" -> st = [kind |-> "Confessor", v |-> "IAmDizzy"]
          [] visible_role = "Dreamer" ->
                 k = "Dreamer"
                 /\ LET found_role == At(true_roles, st.target_index)
                    IN  alignment(found_role) # "Evil" \/ found_role # st.role
          [] visible_role = "Druid" ->
                 k = "Druid"
                 /\ IF st.role # "None"
                    THEN \A idx \in st.target_indexes : At(true_roles, idx) # st.role
                    ELSE \E idx \in st.target_indexes :
                             group(At(true_roles, idx)) = "Outcast"
          [] visible_role = "Empress" ->
                 k = "Empress" /\ \A i \in st.target_indexes : ~evil(i)
          [] visible_role = "Enlightened" ->
                 k = "Enlightened" /\ st.v # closest_evil_direction(true_roles, position)
          [] visible_role = "FortuneTeller" ->
                 k = "FortuneTeller"
                 /\ (\E i \in st.target_indexes : evil(i)) # st.is_evil
          [] visible_role = "Gemcrafter" ->
                 k = "Gemcrafter"
                 /\ st.target_index < Len(true_roles)
                 /\ evil(st.target_index)
          [] visible_role = "Hunter" ->
                 k = "Hunter" /\ st.distance # closest_evil_distance(true_roles, position)
          [] visible_role = "Jester" ->
                 k = "Jester"
                 /\ st.evil_count # Cardinality({i \in st.target_indexes : evil(i)})
          [] visible_role = "Judge" ->
                 k = "Judge"
                 /\ st.is_lying #
                        ((lying(At(true_roles, st.target_index))
                          \/ At(corruptions, st.target_index))
                         /\ At(disguised_roles, st.target_index) # "Confessor")
          [] visible_role = "Knitter" ->
                 k = "Knitter" /\ st.adjacent_count # count_evil_pairs(true_roles)
          [] visible_role = "Lover" ->
                 k = "Lover"
                 /\ st.evil_count # count_neighbor_evil(true_roles, position, 1)
                 /\ st.evil_count <= 2
          [] visible_role = "Medium" ->
                 k = "Medium"
                 /\ st.target_index < Len(true_roles)
                 /\ st.target_index < Len(disguised_roles)
                 /\ At(true_roles, st.target_index) # At(disguised_roles, st.target_index)
                 /\ st.role = At(disguised_roles, st.target_index)
          [] visible_role = "Oracle" ->
                 k = "Oracle" /\ \A i \in st.target_indexes : ~evil(i)
          [] visible_role = "Scout" ->
                 k = "Scout"
                 /\ LET evil_count == count_evil(true_roles)
                    IN  IF st.role # "None"
                        THEN evil_count = 1
                             \/ ~\E idx \in 0..(Len(true_roles) - 1) :
                                    /\ At(true_roles, idx) = st.role
                                    /\ st.distance = closest_evil_distance(true_roles, idx)
                                    /\ evil(idx)
                        ELSE evil_count # 1
          [] visible_role = "Slayer" ->
                 k = "Slayer"
                 /\ st.target_index < Len(true_roles)
                 /\ st.alignment = "Good"
          [] visible_role = "PlagueDoctor" ->
                 k = "PlagueDoctor"
                 /\ LET is_corrupt == At(corruptions, st.corruption_index)
                    IN  IF st.evil_index = -1
                        THEN is_corrupt \/ st.corruption_index = position
                        ELSE ~is_corrupt /\ ~evil(st.evil_index)
          [] visible_role \in {"Bombardier", "Wretch", "Knight"} -> st = NoStatement
          [] OTHER -> FALSE

can_produce_truthful(visible_role, true_roles, disguised_roles, corruptions, drunk_uncorruptions, position, statement) ==
    LET st == statement
        k == statement.kind
        evil(i) == alignment(At(true_roles, i)) = "Evil"
    IN  CASE visible_role = "Alchemist" ->
                 k = "Alchemist" /\ st.corrupt_count = At(drunk_uncorruptions, position)
          [] visible_role = "Architect" ->
                 st = [kind |-> "Architect", v |-> count_side_evils(true_roles)]
          [] visible_role = "Bard" ->
                 k = "Bard" /\ st.distance = closest_corrupt_distance(corruptions, position)
          [] visible_role = "Bishop" ->
                 k = "Bishop"
                 /\ LET cnt(g) == Cardinality({i \in st.target_indexes :
                                                  group(At(true_roles, i)) = g})
                    IN  /\ cnt("Villager") = 1
                        /\ cnt("Minion") = 1
                        /\ cnt("Outcast") <= 1
                        /\ cnt("Demon") = 0
          [] visible_role = "Confessor" -> st = [kind |-> "Confessor", v |-> "IAmGood"]
          [] visible_role = "Druid" ->
                 k = "Druid"
                 /\ IF st.role # "None"
                    THEN \E idx \in st.target_indexes : At(true_roles, idx) = st.role
                    ELSE ~\E idx \in st.target_indexes :
                              group(At(true_roles, idx)) = "Outcast"
          [] visible_role = "Enlightened" ->
                 st = [kind |-> "Enlightened",
                       v |-> closest_evil_direction(true_roles, position)]
          [] visible_role = "Empress" ->
                 k = "Empress"
                 /\ Cardinality({i \in st.target_indexes : evil(i)}) = 1
                 /\ Cardinality({i \in st.target_indexes : ~evil(i)}) = 2
          [] visible_role = "Dreamer" ->
                 k = "Dreamer"
                 /\ LET found_role == At(true_roles, st.target_index)
                    IN  alignment(found_role) # "Evil" \/ found_role = st.role
          [] visible_role = "FortuneTeller" ->
                 k = "FortuneTeller"
                 /\ (\E i \in st.target_indexes : evil(i)) = st.is_evil
          [] visible_role = "Gemcrafter" ->
                 k = "Gemcrafter"
                 /\ st.target_index < Len(true_roles)
                 /\ ~evil(st.target_index)
          [] visible_role = "Hunter" ->
                 k = "Hunter" /\ st.distance = closest_evil_distance(true_roles, position)
          [] visible_role = "Jester" ->
                 k = "Jester"
                 /\ st.evil_count = Cardinality({i \in st.target_indexes : evil(i)})
          [] visible_role = "Judge" ->
                 k = "Judge"
                 /\ st.is_lying =
                        ((lying(At(true_roles, st.target_index))
                          \/ At(corruptions, st.target_index))
                         /\ At(disguised_roles, st.target_index) # "Confessor")
          [] visible_role = "Knitter" ->
                 k = "Knitter" /\ st.adjacent_count = count_evil_pairs(true_roles)
          [] visible_role = "Lover" ->
                 k = "Lover"
                 /\ st.evil_count = count_neighbor_evil(true_roles, position, 1)
          [] visible_role = "Medium" ->
                 k = "Medium"
                 /\ st.target_index # position
                 /\ ~evil(st.target_index)
                 /\ st.role = At(true_roles, st.target_index)
          [] visible_role = "Oracle" ->
                 k = "Oracle"
                 /\ LET first == MinOf(st.target_indexes)
                        second == MinOf(st.target_indexes \ {first})
                    IN  \/ (~evil(first) /\ At(true_roles, second) = st.role)
                        \/ (~evil(second) /\ At(true_roles, first) = st.role)
          [] visible_role = "Scout" ->
                 k = "Scout"
                 /\ LET evil_count == count_evil(true_roles)
                    IN  IF st.role # "None"
                        THEN evil_count # 1
                             /\ \E idx \in 0..(Len(true_roles) - 1) :
                                    /\ At(true_roles, idx) = st.role
                                    /\ st.distance = closest_evil_distance(true_roles, idx)
                                    /\ evil(idx)
                        ELSE evil_count = 1
          [] visible_role = "Slayer" ->
                 k = "Slayer"
                 /\ st.target_index < Len(true_roles)
                 /\ st.alignment = alignment(At(true_roles, st.target_index))
          [] visible_role = "PlagueDoctor" ->
                 k = "PlagueDoctor"
                 /\ LET is_corrupt == At(corruptions, st.corruption_index)
                    IN  IF st.evil_index = -1
                        THEN ~is_corrupt
                        ELSE is_corrupt /\ evil(st.evil_index)
          [] visible_role \in {"Wretch", "Bombardier", "Knight"} -> st = NoStatement
          [] OTHER -> FALSE

\* can_produce_statement without its lying branch.
can_produce_statement_truthful_only(visible_role, is_lying, true_roles, disguised_roles, corruptions, drunk_uncorruptions, position, statement) ==
    can_produce_truthful(visible_role, true_roles, disguised_roles, corruptions,
                         drunk_uncorruptions, position, statement)

\* can_produce_statement whose lying Scout has no exemption for a lone evil.
can_produce_statement_scout_sighting(visible_role, is_lying, true_roles, disguised_roles, corruptions, drunk_uncorruptions, position, statement) ==
    IF is_lying /\ visible_role = "Scout"
    THEN statement.kind = "Scout"
         /\ IF statement.role # "None"
            THEN ~\E idx \in 0..(Len(true_roles) - 1) :
                      /\ At(true_roles, idx) = statement.role
                      /\ statement.distance = closest_evil_distance(true_roles, idx)
                      /\ alignment(At(true_roles, idx)) = "Evil"
            ELSE count_evil(true_roles) # 1
    ELSE IF is_lying
    THEN can_produce_lying(visible_role, true_roles, disguised_roles, corruptions,
                           drunk_uncorruptions, position, statement)
    ELSE can_produce_truthful(visible_role, true_roles, disguised_roles, corruptions,
                              drunk_uncorruptions, position, statement)

can_produce_statement(visible_role, is_lying, true_roles, disguised_roles, corruptions, drunk_uncorruptions, position, statement) ==
    IF is_lying
    THEN can_produce_lying(visible_role, true_roles, disguised_roles, corruptions,
                           drunk_uncorruptions, position, statement)
    ELSE can_produce_truthful(visible_role, true_roles, disguised_roles, corruptions,
                              drunk_uncorruptions, position, statement)

(***************************************************************************)
(* Corruption engine: src/src/solver.rs, lines 459-574.                    *)
(***************************************************************************)
Indices(len) == [k \in 1..len |-> k - 1]

\* elector_options with every Good seat eligible, not only the Villagers.
elector_options_any_good(true_roles, wretch_assign, i) ==
    LET len == Len(true_roles)
        role == At(true_roles, i)
        is_good(n) == alignment(At(wretch_assign, n)) = "Good"
        neighbors == neighbor_indexes(len, i, 1)
    IN  CASE role = "Pooka" ->
                 [k \in 1..Len(SelectSeq(neighbors, is_good)) |->
                     <<SelectSeq(neighbors, is_good)[k]>>]
          [] role = "Poisoner" ->
                 IF SelectSeq(neighbors, is_good) # <<>>
                 THEN <<SelectSeq(neighbors, is_good)>>
                 ELSE <<>>
          [] role = "PlagueDoctor" ->
                 IF SelectSeq(Indices(len), is_good) # <<>>
                 THEN <<SelectSeq(Indices(len), is_good)>>
                 ELSE <<>>
          [] OTHER -> <<>>

\* elector_options with a Pooka that chooses one neighbour, as a Poisoner does.
elector_options_pooka_chooses(true_roles, wretch_assign, i) ==
    LET len == Len(true_roles)
        role == At(true_roles, i)
        is_villager(n) == group(At(wretch_assign, n)) = "Villager"
        neighbors == neighbor_indexes(len, i, 1)
    IN  CASE role \in {"Pooka", "Poisoner"} ->
                 IF SelectSeq(neighbors, is_villager) # <<>>
                 THEN <<SelectSeq(neighbors, is_villager)>>
                 ELSE <<>>
          [] role = "PlagueDoctor" ->
                 IF SelectSeq(Indices(len), is_villager) # <<>>
                 THEN <<SelectSeq(Indices(len), is_villager)>>
                 ELSE <<>>
          [] OTHER -> <<>>

\* elector_options with a Poisoner that only reaches its first neighbour.
elector_options_poisoner_first(true_roles, wretch_assign, i) ==
    LET len == Len(true_roles)
        role == At(true_roles, i)
        is_villager(n) == group(At(wretch_assign, n)) = "Villager"
        neighbors == neighbor_indexes(len, i, 1)
    IN  CASE role = "Pooka" ->
                 [k \in 1..Len(SelectSeq(neighbors, is_villager)) |->
                     <<SelectSeq(neighbors, is_villager)[k]>>]
          [] role = "Poisoner" ->
                 IF SelectSeq(<<neighbors[1]>>, is_villager) # <<>>
                 THEN <<SelectSeq(<<neighbors[1]>>, is_villager)>>
                 ELSE <<>>
          [] role = "PlagueDoctor" ->
                 IF SelectSeq(Indices(len), is_villager) # <<>>
                 THEN <<SelectSeq(Indices(len), is_villager)>>
                 ELSE <<>>
          [] OTHER -> <<>>

\* The options of one elector (the body of the loop at lines 476-514).
elector_options(true_roles, wretch_assign, i) ==
    LET len == Len(true_roles)
        role == At(true_roles, i)
        is_villager(n) == group(At(wretch_assign, n)) = "Villager"
        neighbors == neighbor_indexes(len, i, 1)
    IN  CASE role = "Pooka" ->
                 [k \in 1..Len(SelectSeq(neighbors, is_villager)) |->
                     <<SelectSeq(neighbors, is_villager)[k]>>]
          [] role = "Poisoner" ->
                 IF SelectSeq(neighbors, is_villager) # <<>>
                 THEN <<SelectSeq(neighbors, is_villager)>>
                 ELSE <<>>
          [] role = "PlagueDoctor" ->
                 IF SelectSeq(Indices(len), is_villager) # <<>>
                 THEN <<SelectSeq(Indices(len), is_villager)>>
                 ELSE <<>>
          [] OTHER -> <<>>

\* roles_with_indices after the sort by (priority, index), lines 464-473,
\* without the priority-3 seats, which elect nothing.
electors(true_roles) ==
    LET is(r) == LET t(i) == At(true_roles, i) = r
                 IN  SelectSeq(Indices(Len(true_roles)), t)
    IN  is("Pooka") \o is("Poisoner") \o is("PlagueDoctor")

poison_options(true_roles, wretch_assign) ==
    LET e == electors(true_roles)
    IN  Flatten([k \in 1..Len(e) |-> elector_options(true_roles, wretch_assign, e[k])])

\* combine that pushes a bitmap only when an elector made a choice.
RECURSIVE combine_chosen_only(_, _, _)
combine_chosen_only(options, idx, current) ==
    IF idx = Len(options)
    THEN IF \E k \in DOMAIN current : current[k] THEN <<current>> ELSE <<>>
    ELSE LET fresh(target) == ~At(current, target)
             valid == SelectSeq(options[idx + 1], fresh)
         IN  IF valid = <<>> THEN combine_chosen_only(options, idx + 1, current)
             ELSE Flatten([k \in 1..Len(valid) |->
                     combine_chosen_only(options, idx + 1,
                                         [current EXCEPT ![valid[k] + 1] = TRUE])])

RECURSIVE combine(_, _, _)
combine(options, idx, current) ==
    IF idx = Len(options) THEN <<current>>
    ELSE LET fresh(target) == ~At(current, target)
             valid == SelectSeq(options[idx + 1], fresh)
         IN  IF valid = <<>> THEN combine(options, idx + 1, current)
             ELSE Flatten([k \in 1..Len(valid) |->
                     combine(options, idx + 1,
                             [current EXCEPT ![valid[k] + 1] = TRUE])])

execute_corruption(true_roles, wretch_assign) ==
    combine(poison_options(true_roles, wretch_assign), 0,
            [k \in 1..Len(true_roles) |-> FALSE])

\* The inner loops of lines 560-567 for one Alchemist: the neighbours at
\* offsets 1 and 2 are visited in order, each corrupted one is cleared.
\* clear_neighbors that counts every visit of a corrupted neighbour and
\* clears the bits after the visits.
clear_neighbors_counting_visits(mut_corruption, cleared, ns) ==
    [corruption |-> [k \in 1..Len(mut_corruption) |->
                        mut_corruption[k] /\ ~\E v \in 1..Len(ns) : ns[v] + 1 = k],
     cleared |-> cleared + Cardinality({v \in 1..Len(ns) : At(mut_corruption, ns[v])})]

RECURSIVE clear_neighbors(_, _, _)
clear_neighbors(mut_corruption, cleared, ns) ==
    IF ns = <<>> THEN [corruption |-> mut_corruption, cleared |-> cleared]
    ELSE IF At(mut_corruption, Head(ns))
    THEN clear_neighbors([mut_corruption EXCEPT ![Head(ns) + 1] = FALSE],
                         cleared + 1, Tail(ns))
    ELSE clear_neighbors(mut_corruption, cleared, Tail(ns))

RECURSIVE uncorruption_from(_, _, _, _, _)
uncorruption_from(true_roles, disguised_roles, mut_corruption, cleared_counts, i) ==
    LET len == Len(mut_corruption)
    IN  IF i = len THEN <<mut_corruption, cleared_counts>>
        ELSE IF At(disguised_roles, i) = "Alchemist"
                /\ ~At(mut_corruption, i)
                /\ ~lying(At(true_roles, i))
        THEN LET r == clear_neighbors(mut_corruption, 0,
                          neighbor_indexes(len, i, 1) \o neighbor_indexes(len, i, 2))
             IN  uncorruption_from(true_roles, disguised_roles, r.corruption,
                                   [cleared_counts EXCEPT ![i + 1] = r.cleared], i + 1)
        ELSE uncorruption_from(true_roles, disguised_roles, mut_corruption,
                               cleared_counts, i + 1)

\* execute_uncorruption reaches a call of neighbor_indexes that overflows:
\* an Alchemist that clears, on a seat i with i + len < 2, which can only
\* be seat 0, before any bit was cleared.
execute_uncorruption_overflows(true_roles, disguised_roles, corruption) ==
    \E i \in 0..(Len(corruption) - 1) : \E offset \in {1, 2} :
        /\ At(disguised_roles, i) = "Alchemist"
        /\ ~At(corruption, i)
        /\ ~lying(At(true_roles, i))
        /\ neighbor_indexes_overflows(Len(corruption), i, offset)

execute_uncorruption(true_roles, disguised_roles, corruption) ==
    uncorruption_from(true_roles, disguised_roles, corruption,
                      [k \in 1..Len(corruption) |-> 0], 0)

(***************************************************************************)
(* statements_match: src/src/solver.rs, lines 392-457.  The result is      *)
(* "true" or "false", or "panic" when a call of can_produce_statement      *)
(* that the loops reach ends in panic!.                                    *)
(***************************************************************************)
\* seat_check with the lying flag taken from the true role alone.
seat_check_role_only(candidate, wretch_assign, disguise_assign, observed, pair, idx) ==
    LET obs == At(observed, idx)
        vis_role == At(disguise_assign, idx)
        is_lying == lying(At(candidate, idx))
    IN  IF obs = NoStatement THEN "ok"
        ELSE IF can_produce_statement_panics(vis_role) THEN "panic"
        ELSE IF can_produce_statement(vis_role, is_lying, wretch_assign, disguise_assign,
                                      pair[1], pair[2], idx, obs)
        THEN "ok"
        ELSE "invalid"

\* seat_check with the candidate itself passed as true_roles.
seat_check_candidate_roles(candidate, wretch_assign, disguise_assign, observed, pair, idx) ==
    LET obs == At(observed, idx)
        vis_role == At(disguise_assign, idx)
        is_lying == lying(At(candidate, idx)) \/ At(pair[1], idx)
    IN  IF obs = NoStatement THEN "ok"
        ELSE IF can_produce_statement_panics(vis_role) THEN "panic"
        ELSE IF can_produce_statement(vis_role, is_lying, candidate, disguise_assign,
                                      pair[1], pair[2], idx, obs)
        THEN "ok"
        ELSE "invalid"

\* One iteration of the loop over the seats (lines 406-450).
seat_check(candidate, wretch_assign, disguise_assign, observed, pair, idx) ==
    LET obs == At(observed, idx)
        vis_role == At(disguise_assign, idx)
        is_lying == lying(At(candidate, idx)) \/ At(pair[1], idx)
    IN  IF obs = NoStatement THEN "ok"
        ELSE IF can_produce_statement_panics(vis_role) THEN "panic"
        ELSE IF can_produce_statement(vis_role, is_lying, wretch_assign, disguise_assign,
                                      pair[1], pair[2], idx, obs)
        THEN "ok"
        ELSE "invalid"

RECURSIVE seats_from(_, _, _, _, _, _)
seats_from(candidate, wretch_assign, disguise_assign, observed, pair, idx) ==
    IF idx = Len(candidate) THEN "ok"
    ELSE LET r == seat_check(candidate, wretch_assign, disguise_assign, observed,
                             pair, idx)
         IN  IF r # "ok" THEN r
             ELSE seats_from(candidate, wretch_assign, disguise_assign, observed,
                             pair, idx + 1)

RECURSIVE corruption_loop(_, _, _, _, _)
corruption_loop(candidate, wretch_assign, disguise_assign, observed, pres) ==
    IF pres = <<>> THEN "false"
    ELSE LET pair == execute_uncorruption(candidate, disguise_assign, Head(pres))
             r == seats_from(candidate, wretch_assign, disguise_assign, observed, pair, 0)
         IN  IF r = "ok" THEN "true"
             ELSE IF r = "panic" THEN "panic"
             ELSE corruption_loop(candidate, wretch_assign, disguise_assign, observed,
                                  Tail(pres))

statements_match(candidate, wretch_assign, disguise_assign, observed) ==
    corruption_loop(candidate, wretch_assign, disguise_assign, observed,
                    execute_corruption(candidate, wretch_assign))

(***************************************************************************)
(* Search engine: src/src/solver.rs, lines 6-390.                          *)
(***************************************************************************)
\* Itertools::combinations(k): the k-element sub-sequences, chosen by
\* position, in lexicographic order of the positions.
RECURSIVE combinations(_, _)
combinations(s, k) ==
    IF k = 0 THEN <<<<>>>>
    ELSE IF Len(s) < k THEN <<>>
    ELSE LET with == combinations(Tail(s), k - 1)
         IN  [j \in 1..Len(with) |-> <<Head(s)>> \o with[j]]
             \o combinations(Tail(s), k)

generate_role_combinations(deck, villagers, outcasts, minions, demons) ==
    <<combinations(filter_group(deck, "Villager"), villagers),
      combinations(filter_group(deck, "Outcast"), outcasts),
      combinations(filter_group(deck, "Minion"), minions),
      combinations(filter_group(deck, "Demon"), demons)>>

\* generate_role_variations that replaces the first Villager only.
generate_role_variations_first_only(v_combo, o_combo, m_combo, d_combo, outcasts_not_in_play, has_counsellor) ==
    IF ~has_counsellor THEN <<v_combo \o o_combo \o m_combo \o d_combo>>
    ELSE IF v_combo = <<>> THEN <<>>
    ELSE [j \in 1..Len(outcasts_not_in_play) |->
             <<outcasts_not_in_play[j]>> \o Tail(v_combo)
             \o o_combo \o m_combo \o d_combo]

\* generate_role_variations without the Counsellor substitution.
generate_role_variations_base(v_combo, o_combo, m_combo, d_combo, outcasts_not_in_play, has_counsellor) ==
    <<v_combo \o o_combo \o m_combo \o d_combo>>

generate_role_variations(v_combo, o_combo, m_combo, d_combo, outcasts_not_in_play, has_counsellor) ==
    IF ~has_counsellor THEN <<v_combo \o o_combo \o m_combo \o d_combo>>
    ELSE Flatten([i \in 1..Len(v_combo) |->
            IF group(v_combo[i]) = "Villager"
            THEN [j \in 1..Len(outcasts_not_in_play) |->
                     [v_combo EXCEPT ![i] = outcasts_not_in_play[j]]
                     \o o_combo \o m_combo \o d_combo]
            ELSE <<>>])

\* build_choices that gives a Demon the choices of a Minion.
build_choices_demon_as_minion(candidate, deck_minions, deck_non_evil, deck_villagers_in_play, deck_villager_not_in_play) ==
    <<[k \in 1..Len(candidate) |->
          IF candidate[k] = "Wretch" THEN deck_minions ELSE <<candidate[k]>>],
      [k \in 1..Len(candidate) |->
          IF group(candidate[k]) \in {"Demon", "Minion"} THEN deck_non_evil
          ELSE IF candidate[k] = "DoppelGanger" THEN deck_villagers_in_play
          ELSE <<candidate[k]>>]>>

build_choices(candidate, deck_minions, deck_non_evil, deck_villagers_in_play, deck_villager_not_in_play) ==
    <<[k \in 1..Len(candidate) |->
          IF candidate[k] = "Wretch" THEN deck_minions ELSE <<candidate[k]>>],
      [k \in 1..Len(candidate) |->
          IF group(candidate[k]) = "Demon" THEN deck_villager_not_in_play
          ELSE IF group(candidate[k]) = "Minion" THEN deck_non_evil
          ELSE IF candidate[k] = "DoppelGanger" THEN deck_villagers_in_play
          ELSE <<candidate[k]>>]>>

\* The check of lines 288-309 on a complete permutation.
counsellor_ok(current) ==
    IF ~contains(current, "Counsellor") THEN TRUE
    ELSE LET len == Len(current)
             counsellor_pos == MinOf({i \in 0..(len - 1) : At(current, i) = "Counsellor"})
             left_pos == IF counsellor_pos = 0 THEN len - 1 ELSE counsellor_pos - 1
             right_pos == IF counsellor_pos = len - 1 THEN 0 ELSE counsellor_pos + 1
         IN  group(At(current, left_pos)) = "Outcast"
             \/ group(At(current, right_pos)) = "Outcast"

\* permute_multiset: the sequence of the permutations handed to `process`.
RECURSIVE permute_multiset(_, _, _, _)
permute_multiset(counts, keys, current, target_len) ==
    IF Len(current) = target_len
    THEN IF counsellor_ok(current) THEN <<current>> ELSE <<>>
    ELSE Flatten([j \in 1..Len(keys) |->
            IF counts[keys[j]] = 0 THEN <<>>
            ELSE permute_multiset([counts EXCEPT ![keys[j]] = @ - 1], keys,
                                  Append(current, keys[j]), target_len)])

\* confirmed_roles_ok with any() where the code has all().
confirmed_roles_ok_any(candidate, confirmed_roles) ==
    \E k \in 1..(IF Len(candidate) < Len(confirmed_roles)
                 THEN Len(candidate) ELSE Len(confirmed_roles)) :
        confirmed_roles[k] = "None" \/ confirmed_roles[k] = candidate[k]

confirmed_roles_ok(candidate, confirmed_roles) ==
    \A k \in 1..(IF Len(candidate) < Len(confirmed_roles)
                 THEN Len(candidate) ELSE Len(confirmed_roles)) :
        confirmed_roles[k] = "None" \/ confirmed_roles[k] = candidate[k]

\* assign_disguises_and_check with the on_complete closure of lines 118-131.
\* The result is the outcome ("true", "false" or "panic") and, when "true",
\* the two assignments handed to on_complete.
RECURSIVE assign_disguises_and_check(_, _, _, _, _, _, _, _)
RECURSIVE try_choices(_, _, _, _, _, _, _, _, _)
assign_disguises_and_check(candidate, wretch_choices, disguise_choices, visible_roles, wretch_assign, disguise_assign, pos, observed) ==
    IF pos = Len(candidate)
    THEN [success |-> statements_match(candidate, wretch_assign, disguise_assign, observed),
          wretch |-> wretch_assign, disguise |-> disguise_assign]
    ELSE LET allowed(d_choice) ==
                 At(visible_roles, pos) = "None" \/ At(visible_roles, pos) = d_choice
             ds == SelectSeq(At(disguise_choices, pos), allowed)
             ws == At(wretch_choices, pos)
             pairs == Flatten([a \in 1..Len(ws) |->
                                  [b \in 1..Len(ds) |-> <<ws[a], ds[b]>>]])
         IN  try_choices(candidate, wretch_choices, disguise_choices, visible_roles,
                         wretch_assign, disguise_assign, pos, observed, pairs)

try_choices(candidate, wretch_choices, disguise_choices, visible_roles, wretch_assign, disguise_assign, pos, observed, pairs) ==
    IF pairs = <<>>
    THEN [success |-> "false", wretch |-> <<>>, disguise |-> <<>>]
    ELSE LET r == assign_disguises_and_check(
                      candidate, wretch_choices, disguise_choices, visible_roles,
                      Append(wretch_assign, Head(pairs)[1]),
                      Append(disguise_assign, Head(pairs)[2]), pos + 1, observed)
         IN  IF r.success # "false" THEN r
             ELSE try_choices(candidate, wretch_choices, disguise_choices, visible_roles,
                              wretch_assign, disguise_assign, pos, observed, Tail(pairs))

(***************************************************************************)
(* The state of one call of brute_force_solve (src/src/solver.rs, 6-142).  *)
(* The closure of lines 43-141 runs once per Villager combination, on the  *)
(* workers of the rayon pool; worker w is the one that runs the w-th       *)
(* combination.                                                            *)
(***************************************************************************)
VARIABLES
    deck, visible_roles, confirmed_roles, observed_statements,
    villagers, outcasts, minions, demons,
    villager_combos,   \* line 25: the Villager combinations, one per worker
    pc,            \* "running", "done" (returned) or "panicked"
    todo,          \* per worker: the multisets the loop of line 73 has yet to visit
    local_valid,   \* per worker: its local_valid vector
    accepted,      \* per worker, per entry of local_valid: the Wretch and disguise
                   \* assignments on_complete accepted it with
    result,        \* the vector returned
    arg_true_roles, arg_position,   \* the arguments of a call of the geometry helpers
    ret_distance, ret_direction,    \* what closest_evil_distance / _direction returned
    call,          \* the arguments of a call of another function of the program
    ret            \* what that call returned ("panic" when it ended in panic!)

inputs == <<deck, visible_roles, confirmed_roles, observed_statements,
            villagers, outcasts, minions, demons, villager_combos>>

vars == <<deck, visible_roles, confirmed_roles, observed_statements,
          villagers, outcasts, minions, demons, villager_combos,
          pc, todo, local_valid, accepted, result,
          arg_true_roles, arg_position, ret_distance, ret_direction, call, ret>>

solver == <<deck, visible_roles, confirmed_roles, observed_statements,
            villagers, outcasts, minions, demons, villager_combos,
            todo, local_valid, accepted, result>>

geometry == <<arg_true_roles, arg_position, ret_distance, ret_direction, call, ret>>

n == Len(visible_roles)

deck_minions == filter_group(deck, "Minion")

deck_non_evil ==
    LET t(r) == alignment(r) # "Evil" IN SelectSeq(deck, t)

deck_villager_not_in_play(v_combo) ==
    LET t(r) == group(r) = "Villager" /\ ~contains(v_combo, r) IN SelectSeq(deck, t)

outcasts_not_in_play(o_combo) ==
    LET t(r) == group(r) = "Outcast" /\ ~contains(o_combo, r) IN SelectSeq(deck, t)

deck_villagers_in_play(combined, v_combo) ==
    LET t(r) == group(r) = "Villager" /\ ~contains(v_combo, r) IN SelectSeq(combined, t)

\* The multisets the loop of line 73 visits for one Villager combination, in
\* the order of the loops of lines 55-73; combos is the result of
\* generate_role_combinations.
worker_jobs(v_combo, combos) ==
    LET outcast_combos == combos[2]
        minion_combos == combos[3]
        demon_combos == combos[4]
    IN  Flatten([a \in 1..Len(outcast_combos) |->
          Flatten([b \in 1..Len(minion_combos) |->
            Flatten([c \in 1..Len(demon_combos) |->
              generate_role_variations(
                  v_combo, outcast_combos[a], minion_combos[b], demon_combos[c],
                  outcasts_not_in_play(outcast_combos[a]),
                  contains(minion_combos[b], "Counsellor"))])])])

\* The closure handed to permute_multiset (lines 95-133), for one candidate.
process_candidate(candidate, combined, v_combo) ==
    IF ~confirmed_roles_ok(candidate, confirmed_roles)
    THEN [success |-> "false", wretch |-> <<>>, disguise |-> <<>>]
    ELSE LET choices == build_choices(candidate, deck_minions, deck_non_evil,
                                      deck_villagers_in_play(combined, v_combo),
                                      deck_villager_not_in_play(v_combo))
         IN  assign_disguises_and_check(candidate, choices[1], choices[2], visible_roles,
                                        <<>>, <<>>, 0, observed_statements)

\* The HashMap of lines 81-84 and the orders its keys can be iterated in.
role_counts(combined) ==
    [r \in Range(combined) |-> Cardinality({k \in DOMAIN combined : combined[k] = r})]

RECURSIVE orders_of(_)
orders_of(S) ==
    IF S = {} THEN {<<>>}
    ELSE UNION {{<<r>> \o t : t \in orders_of(S \ {r})} : r \in S}

key_orders(combined) == orders_of(Range(combined))

\* The outcome of the closure for each candidate of a sequence of candidates.
\* The closure reads the candidate and the inputs only, so the outcomes of
\* the candidates of one multiset are computed once (outcomes_of) and read
\* in the order each key order visits them (job_outcomes).
RECURSIVE outcomes_of(_, _, _)
outcomes_of(cands, combined, v_combo) ==
    IF cands = <<>> THEN <<>>
    ELSE <<[candidate |-> Head(cands),
            outcome |-> process_candidate(Head(cands), combined, v_combo)]>>
         \o outcomes_of(Tail(cands), combined, v_combo)

RECURSIVE job_outcomes(_, _)
job_outcomes(table, cands) ==
    IF cands = <<>> THEN <<>>
    ELSE <<table[CHOOSE k \in DOMAIN table : table[k].candidate = Head(cands)]>>
         \o job_outcomes(table, Tail(cands))

first_order(combined) == CHOOSE keys \in key_orders(combined) : TRUE

job_table(combined, v_combo) ==
    outcomes_of(permute_multiset(role_counts(combined), first_order(combined), <<>>, n),
                combined, v_combo)

job_panics(outs) == \E k \in 1..Len(outs) : outs[k].outcome.success = "panic"

pushed(outs) ==
    LET ok(o) == o.outcome.success = "true" IN SelectSeq(outs, ok)

Workers == 1..Len(villager_combos)

\* RunJob with one vector shared by the workers, which each iteration
\* clears before it pushes.
RunJobSharedVector(w) ==
    /\ pc = "running"
    /\ todo[w] # <<>>
    /\ \E v_combo \in {villager_combos[w]} :
       \E combined \in {Head(todo[w])} :
       \E table \in {job_table(combined, v_combo)} :
           /\ ~job_panics(table)
           /\ \E keys \in key_orders(combined) :
              \E good \in {pushed(job_outcomes(table,
                              permute_multiset(role_counts(combined), keys, <<>>, n)))} :
                  /\ local_valid' =
                         [u \in Workers |->
                             IF u = w THEN [k \in 1..Len(good) |-> good[k].candidate]
                             ELSE <<>>]
                  /\ accepted' =
                         [u \in Workers |->
                             IF u = w
                             THEN [k \in 1..Len(good) |->
                                      [wretch |-> good[k].outcome.wretch,
                                       disguise |-> good[k].outcome.disguise,
                                       v_combo |-> v_combo,
                                       combined |-> combined]]
                             ELSE <<>>]
    /\ todo' = [todo EXCEPT ![w] = Tail(@)]
    /\ UNCHANGED <<inputs, pc, result, geometry>>

\* One iteration of the loop of line 73 on worker w: permute_multiset and
\* every call of its closure, for one iteration order of the keys.
RunJob(w) ==
    /\ pc = "running"
    /\ todo[w] # <<>>
    /\ \E v_combo \in {villager_combos[w]} :
       \E combined \in {Head(todo[w])} :
       \E table \in {job_table(combined, v_combo)} :
           /\ ~job_panics(table)
           /\ \E keys \in key_orders(combined) :
              \E good \in {pushed(job_outcomes(table,
                              permute_multiset(role_counts(combined), keys, <<>>, n)))} :
                  /\ local_valid' =
                         [local_valid EXCEPT ![w] =
                             @ \o [k \in 1..Len(good) |-> good[k].candidate]]
                  /\ accepted' =
                         [accepted EXCEPT ![w] =
                             @ \o [k \in 1..Len(good) |->
                                      [wretch |-> good[k].outcome.wretch,
                                       disguise |-> good[k].outcome.disguise,
                                       v_combo |-> v_combo,
                                       combined |-> combined]]]
    /\ todo' = [todo EXCEPT ![w] = Tail(@)]
    /\ UNCHANGED <<inputs, pc, result, geometry>>

\* The same iteration when a call of can_produce_statement panics: the
\* panic unwinds through the pool and brute_force_solve does not return.
JobPanics(w) ==
    /\ pc = "running"
    /\ todo[w] # <<>>
    /\ \E v_combo \in {villager_combos[w]} :
       \E combined \in {Head(todo[w])} :
           job_panics(job_table(combined, v_combo))
    /\ pc' = "panicked"
    /\ UNCHANGED <<inputs, todo, local_valid, accepted, result, geometry>>

\* flat_map(...).collect(): the local vectors, concatenated in the order of
\* the Villager combinations.
Collect ==
    /\ pc = "running"
    /\ \A w \in Workers : todo[w] = <<>>
    /\ result' = Flatten([w \in Workers |-> local_valid[w]])
    /\ pc' = "done"
    /\ UNCHANGED <<inputs, todo, local_valid, accepted, geometry>>

(***************************************************************************)
(* The inputs of the checked calls.  The decks are small decks that hold   *)
(* every kind of card the search treats in a way of its own; the quotas    *)
(* range over every partition the deck can fill, for tables of up to MaxN  *)
(* seats (a quota above the deck's count of the group leaves no            *)
(* combination and an empty result at once); up to MaxLocks of the         *)
(* visible, confirmed and observed entries are set, the others are unknown *)
(* (None, NoStatement).  Seat indexes in statements are seats of the table.*)
(***************************************************************************)
MaxN == 3

MaxLocks == 2

Decks ==
    {<<>>,
     <<"Knight", "Minion">>,
     <<"Knight", "Knight", "Minion">>,
     <<"Confessor", "Confessor", "Minion">>,
     <<"Confessor", "Wretch", "Minion">>,
     <<"Knight", "DoppelGanger", "Minion">>,
     <<"Confessor", "Knight", "Pooka">>,
     <<"Baker", "Confessor", "Minion">>,
     <<"Confessor", "Hunter", "Poisoner">>,
     <<"Knight", "Confessor", "Bombardier", "Counsellor">>}

StatementPool ==
    {[kind |-> "Confessor", v |-> "IAmGood"],
     [kind |-> "Confessor", v |-> "IAmDizzy"],
     [kind |-> "Hunter", distance |-> 1]}

Slots(len) == (1..len) \X {"visible", "confirmed", "observed"}

seats_of(L, what) == {l[1] : l \in {x \in L : x[2] = what}}

\* Inputs of the repository's tests that set more entries than MaxLocks:
\* finds_minion_with_typed_statements (src/tests/solver_tests.rs, 4-24) and
\* test_confirmed (585-607); two tables of a Wretch next to a Hunter or a
\* Gemcrafter that speaks about it; a deck with a Counsellor and two
\* Outcasts; and a deck with two Counsellors.
Scenarios ==
    {[deck |-> <<"Confessor", "Confessor", "Minion">>,
      quotas |-> <<2, 0, 1, 0>>,
      visible |-> <<"Confessor", "Confessor", "Confessor">>,
      confirmed |-> <<"None", "None", "None">>,
      observed |-> <<[kind |-> "Confessor", v |-> "IAmGood"],
                     [kind |-> "Confessor", v |-> "IAmGood"],
                     [kind |-> "Confessor", v |-> "IAmDizzy"]>>],
     [deck |-> <<"Knight", "Minion">>,
      quotas |-> <<1, 0, 1, 0>>,
      visible |-> <<"Knight", "Knight">>,
      confirmed |-> <<"Knight", "None">>,
      observed |-> <<NoStatement, NoStatement>>],
     [deck |-> <<"Hunter", "Wretch", "Minion">>,
      quotas |-> <<1, 1, 0, 0>>,
      visible |-> <<"Hunter", "Wretch">>,
      confirmed |-> <<"None", "None">>,
      observed |-> <<[kind |-> "Hunter", distance |-> 1], NoStatement>>],
     [deck |-> <<"Gemcrafter", "Wretch", "Minion">>,
      quotas |-> <<1, 1, 0, 0>>,
      visible |-> <<"Gemcrafter", "Wretch">>,
      confirmed |-> <<"None", "None">>,
      observed |-> <<[kind |-> "Gemcrafter", target_index |-> 1], NoStatement>>],
     [deck |-> <<"Knight", "Confessor", "Bombardier", "Wretch", "Counsellor">>,
      quotas |-> <<2, 0, 1, 0>>,
      visible |-> <<"None", "None", "None">>,
      confirmed |-> <<"None", "None", "None">>,
      observed |-> <<NoStatement, NoStatement, NoStatement>>],
     [deck |-> <<"Knight", "Knight", "Bombardier", "Counsellor", "Counsellor">>,
      quotas |-> <<2, 0, 2, 0>>,
      visible |-> <<"None", "None", "None", "None">>,
      confirmed |-> <<"None", "None", "None", "None">>,
      observed |-> <<NoStatement, NoStatement, NoStatement, NoStatement>>]}

ScenarioInput ==
    \E sc \in Scenarios :
        /\ deck = sc.deck
        /\ villagers = sc.quotas[1]
        /\ outcasts = sc.quotas[2]
        /\ minions = sc.quotas[3]
        /\ demons = sc.quotas[4]
        /\ visible_roles = sc.visible
        /\ confirmed_roles = sc.confirmed
        /\ observed_statements = sc.observed

FamilyInput ==
    /\ deck \in Decks
    /\ villagers \in 0..Len(filter_group(deck, "Villager"))
    /\ outcasts \in 0..Len(filter_group(deck, "Outcast"))
    /\ minions \in 0..Len(filter_group(deck, "Minion"))
    /\ demons \in 0..Len(filter_group(deck, "Demon"))
    /\ villagers + outcasts + minions + demons <= MaxN
    /\ LET len == villagers + outcasts + minions + demons
       IN  \E L \in {l \in SUBSET Slots(len) : Cardinality(l) <= MaxLocks} :
             \E vis \in [seats_of(L, "visible") -> Range(deck)],
                conf \in [seats_of(L, "confirmed") -> Range(deck)],
                obs \in [seats_of(L, "observed") -> StatementPool] :
               /\ visible_roles =
                      [i \in 1..len |-> IF i \in DOMAIN vis THEN vis[i] ELSE "None"]
               /\ confirmed_roles =
                      [i \in 1..len |-> IF i \in DOMAIN conf THEN conf[i] ELSE "None"]
               /\ observed_statements =
                      [i \in 1..len |-> IF i \in DOMAIN obs THEN obs[i] ELSE NoStatement]

\* The state when the parallel loop of line 43 starts: the inputs, the
\* combinations of line 25 and empty local vectors.
Start ==
    /\ \E combos \in {generate_role_combinations(deck, villagers, outcasts,
                                                 minions, demons)} :
           /\ villager_combos = combos[1]
           /\ todo = [w \in 1..Len(combos[1]) |-> worker_jobs(combos[1][w], combos)]
    /\ pc = "running"
    /\ local_valid = [w \in Workers |-> <<>>]
    /\ accepted = [w \in Workers |-> <<>>]
    /\ result = <<>>

\* No call of the geometry helpers is under way.
NoCall ==
    /\ arg_true_roles = <<>>
    /\ arg_position = 0
    /\ ret_distance = -1
    /\ ret_direction = "None"
    /\ call = "None"
    /\ ret = "None"

Init == (FamilyInput \/ ScenarioInput) /\ Start /\ NoCall

Next ==
    \/ \E w \in Workers : RunJob(w)
    \/ \E w \in Workers : JobPanics(w)
    \/ Collect

Spec == Init /\ [][Next]_vars

(***************************************************************************)
(* Calls of the geometry helpers of src/src/roles.rs (lines 1409-1437) on  *)
(* tables of 1 to MaxTable seats.                                          *)
(***************************************************************************)
MaxTable == 4

TableRoles == {"Knight", "Wretch", "Minion", "Pooka"}

Tables == UNION {[1..len -> TableRoles] : len \in 1..MaxTable}

NoSolve ==
    /\ deck = <<>>
    /\ visible_roles = <<>>
    /\ confirmed_roles = <<>>
    /\ observed_statements = <<>>
    /\ villagers = 0
    /\ outcasts = 0
    /\ minions = 0
    /\ demons = 0
    /\ villager_combos = <<>>
    /\ todo = <<>>
    /\ local_valid = <<>>
    /\ accepted = <<>>
    /\ result = <<>>

InitGeometry ==
    /\ NoSolve
    /\ pc = "call"
    /\ arg_true_roles \in Tables
    /\ arg_position \in 0..(Len(arg_true_roles) - 1)
    /\ ret_distance = -1
    /\ ret_direction = "None"
    /\ call = "None"
    /\ ret = "None"

ClosestEvil ==
    /\ pc = "call"
    /\ ret_distance' = closest_evil_distance(arg_true_roles, arg_position)
    /\ ret_direction' = closest_evil_direction(arg_true_roles, arg_position)
    /\ pc' = "returned"
    /\ UNCHANGED <<solver, arg_true_roles, arg_position, call, ret>>

NextGeometry == ClosestEvil

SpecGeometry == InitGeometry /\ [][NextGeometry]_vars

(***************************************************************************)
(* Calls of the catalog functions of src/src/roles.rs (lines 109-145) on   *)
(* every role of the enum: group, alignment and lying are called once      *)
(* each, in any order.                                                     *)
(***************************************************************************)
InitCatalog ==
    /\ NoSolve
    /\ pc = "call"
    /\ arg_true_roles = <<>>
    /\ arg_position = 0
    /\ ret_distance = -1
    /\ ret_direction = "None"
    /\ \E r \in Role : call = [fn |-> "catalog", role |-> r]
    /\ ret = [called |-> {}, group |-> "None", alignment |-> "None", lying |-> FALSE]

\* The call of one catalog function; the third call ends the sequence.
CatalogCall(f, value) ==
    /\ pc = "call"
    /\ call.fn = "catalog"
    /\ f \notin ret.called
    /\ ret' = [ret EXCEPT !.called = @ \cup {f}, ![f] = value]
    /\ pc' = IF ret.called \cup {f} = {"group", "alignment", "lying"}
             THEN "returned" ELSE "call"
    /\ UNCHANGED <<solver, arg_true_roles, arg_position, ret_distance, ret_direction, call>>

CallGroup == CatalogCall("group", group(call.role))

CallAlignment == CatalogCall("alignment", alignment(call.role))

CallLying == CatalogCall("lying", lying(call.role))

NextCatalog == CallGroup \/ CallAlignment \/ CallLying

SpecCatalog == InitCatalog /\ [][NextCatalog]_vars

(***************************************************************************)
(* Calls of the corruption engine (src/src/solver.rs, 459-574) as          *)
(* statements_match makes them: on a candidate of 1 to MaxCorruptionTable  *)
(* seats, with a Wretch assignment that replaces each Wretch by a Minion   *)
(* role (build_choices, line 199) and a disguise assignment in which the   *)
(* Villagers and Outcasts show themselves and a Minion or Demon shows a    *)
(* Villager face.  A call returns its pairs, or ends in the panic of an    *)
(* arithmetic overflow when the build checks for overflow.                 *)
(***************************************************************************)
MaxCorruptionTable == 4

CorruptionRoles ==
    {"Knight", "Alchemist", "Wretch", "Poisoner", "Pooka", "PlagueDoctor"}

\* build_choices: a Wretch is replaced by a Minion role of the deck, a Minion
\* or Demon shows a face of its choice, the others show themselves.
InitCorruption ==
    /\ NoSolve
    /\ pc = "call"
    /\ arg_true_roles = <<>>
    /\ arg_position = 0
    /\ ret_distance = -1
    /\ ret_direction = "None"
    /\ \E len \in 1..MaxCorruptionTable :
       \E candidate \in [1..len -> CorruptionRoles] :
       \E face \in [1..len -> {"Knight", "Alchemist"}] :
           call = [fn |-> "corruption",
                   candidate |-> candidate,
                   wretch_assign |->
                       [k \in 1..len |->
                           IF candidate[k] = "Wretch" THEN "Minion" ELSE candidate[k]],
                   disguise_assign |->
                       [k \in 1..len |->
                           IF group(candidate[k]) \in {"Minion", "Demon"}
                           THEN face[k] ELSE candidate[k]]]
    /\ ret = "None"

\* Lines 400-403 of statements_match: every bitmap of execute_corruption and
\* the pair execute_uncorruption makes of it.
Corrupt ==
    /\ pc = "call"
    /\ call.fn = "corruption"
    /\ \E pre \in {execute_corruption(call.candidate, call.wretch_assign)} :
           ret' = [k \in 1..Len(pre) |->
                      LET pair == execute_uncorruption(call.candidate,
                                                       call.disguise_assign, pre[k])
                      IN  [pre_corruption |-> [i \in 1..Len(pre[k]) |-> pre[k][i]],
                           pair |-> <<[i \in 1..Len(pre[k]) |-> pair[1][i]],
                                      [i \in 1..Len(pre[k]) |-> pair[2][i]]>>]]
    /\ pc' = "returned"
    /\ UNCHANGED <<solver, arg_true_roles, arg_position, ret_distance, ret_direction, call>>

\* The same calls in a build with overflow checks, when execute_uncorruption
\* reaches the overflow for one of the bitmaps: the call panics.
CorruptOverflows ==
    /\ pc = "call"
    /\ call.fn = "corruption"
    /\ \E pre \in {execute_corruption(call.candidate, call.wretch_assign)} :
       \E k \in 1..Len(pre) :
           execute_uncorruption_overflows(call.candidate, call.disguise_assign, pre[k])
    /\ pc' = "panicked"
    /\ UNCHANGED <<solver, arg_true_roles, arg_position, ret_distance, ret_direction,
                   call, ret>>

NextCorruption == Corrupt \/ CorruptOverflows

SpecCorruption == InitCorruption /\ [][NextCorruption]_vars

(***************************************************************************)
(* Calls of can_produce_statement (src/src/roles.rs, 1487-1985) for a seat *)
(* that shows a silent role, Knitter or Architect, as statements_match     *)
(* makes them on tables of 2 to MaxStatementTable seats: the speaker is    *)
(* the role it shows, and lies when it is corrupted, or it is a Minion in  *)
(* disguise, which lies; the other seats are Knights and Minions that show *)
(* Knight.  A call ends in "true", "false" or, in the `other => panic!`    *)
(* arm, in "panic".                                                        *)
(***************************************************************************)
MaxStatementTable == 4

StatementFaces ==
    {"Knight", "Bombardier", "Wretch", "Poet", "Baker", "Witness", "Knitter", "Architect"}

StatementTableRoles == {"Knight", "Minion"}

CallStatements ==
    {NoStatement}
        \cup {[kind |-> "Confessor", v |-> v] : v \in {"IAmGood", "IAmDizzy"}}
        \cup {[kind |-> "Knitter", adjacent_count |-> k] : k \in 0..MaxStatementTable}
        \cup {[kind |-> "Architect", v |-> v] : v \in {"Left", "Right", "Equal"}}

InitStatement ==
    /\ NoSolve
    /\ pc = "call"
    /\ arg_true_roles = <<>>
    /\ arg_position = 0
    /\ ret_distance = -1
    /\ ret_direction = "None"
    /\ \E len \in 2..MaxStatementTable :
       \E table \in [1..len -> StatementTableRoles] :
       \E position \in 0..(len - 1) :
       \E visible_role \in StatementFaces :
       \E is_lying \in BOOLEAN :
       \E statement \in CallStatements :
           /\ table[position + 1] = "Minion" => is_lying
           /\ call = [fn |-> "can_produce_statement",
                      visible_role |-> visible_role,
                      is_lying |-> is_lying,
                      true_roles |->
                          [k \in 1..len |->
                              IF k = position + 1 /\ table[k] = "Knight"
                              THEN visible_role ELSE table[k]],
                      disguised_roles |->
                          [k \in 1..len |-> IF k = position + 1 THEN visible_role
                                            ELSE "Knight"],
                      corruptions |->
                          [k \in 1..len |->
                              k = position + 1 /\ table[k] = "Knight" /\ is_lying],
                      drunk_uncorruptions |-> [k \in 1..len |-> 0],
                      position |-> position,
                      statement |-> statement]
    /\ ret = "None"

\* The result of a call: the match of the branch is_lying selects.
produce(c) ==
    IF can_produce_statement_panics(c.visible_role) THEN "panic"
    ELSE IF can_produce_statement(c.visible_role, c.is_lying, c.true_roles,
                                  c.disguised_roles, c.corruptions,
                                  c.drunk_uncorruptions, c.position, c.statement)
         THEN "true"
         ELSE "false"

Produce ==
    /\ pc = "call"
    /\ call.fn = "can_produce_statement"
    /\ ret' = produce(call)
    /\ pc' = "returned"
    /\ UNCHANGED <<solver, arg_true_roles, arg_position, ret_distance, ret_direction, call>>

NextStatement == Produce

SpecStatement == InitStatement /\ [][NextStatement]_vars

(***************************************************************************)
(* The command-line front end: src/src/runner.rs, run_args (188-242),      *)
(* parse_input (244-357), parse_role (176-186) and parse_roles (446-462).  *)
(* An argument is kept as the parts the code splits it into: the deck as   *)
(* the tokens between its commas, a seat as the tokens between its colons. *)
(* A call of run_args ends in a record of what was printed on the two      *)
(* streams, of the function the parsed input was handed to, and of the     *)
(* exit status: 1 after std::process::exit(1), 0 when run_args returns.    *)
(* A call is: whether --validate is absent, the last argument or given     *)
(* with a candidate; whether fewer than six arguments are left (short);    *)
(* and the deck, the four counts and the seat arguments.                   *)
(***************************************************************************)
MaxSeatArgs == 2

\* str::to_lowercase and str::trim on the tokens of the inputs.
to_lowercase(s) ==
    CASE s = "Knight" -> "knight"
      [] s = "IAmGood" -> "iamgood"
      [] OTHER -> s

trim(s) == IF s = " minion" THEN "minion" ELSE s

eq_ignore_ascii_case(s, t) == to_lowercase(s) = to_lowercase(t)

Ok(v) == [ok |-> TRUE, v |-> v]

Err(e) == [ok |-> FALSE, e |-> e]

\* Role::from_str, derived by strum with serialize_all = "lowercase".
from_str(s) ==
    CASE s = "confessor" -> Ok("Confessor")
      [] s = "knight" -> Ok("Knight")
      [] s = "minion" -> Ok("Minion")
      [] s = "baker" -> Ok("Baker")
      [] OTHER -> Err("Matching variant not found")

\* str::parse::<usize> on the count tokens.
parse_usize(s) ==
    CASE s = "0" -> Ok(0)
      [] s = "1" -> Ok(1)
      [] s = "2" -> Ok(2)
      [] OTHER -> Err("invalid digit found in string")

parse_role(s) ==
    LET lower == to_lowercase(trim(s))
    IN  IF lower \in {"?", "", "baker"} THEN Ok("None")
        ELSE IF from_str(lower).ok THEN from_str(lower)
        ELSE Err("Failed to parse role")

\* parse_roles on the comma-separated tokens r.
RECURSIVE parse_roles(_)
parse_roles(r) ==
    IF r = <<>> THEN Ok(<<>>)
    ELSE LET first == from_str(trim(to_lowercase(Head(r))))
             rest == parse_roles(Tail(r))
         IN  IF ~first.ok THEN Err("Failed to parse role")
             ELSE IF ~rest.ok THEN rest
             ELSE Ok(<<first.v>> \o rest.v)

\* Role::parse_statement (src/src/roles.rs, 146-459) for the roles of from_str.
parse_statement(role, s) ==
    IF role = "Confessor"
    THEN CASE trim(s) = "iamgood" -> Ok([kind |-> "Confessor", v |-> "IAmGood"])
           [] trim(s) = "iamdizzy" -> Ok([kind |-> "Confessor", v |-> "IAmDizzy"])
           [] OTHER -> Err("Invalid Confessor statement")
    ELSE Err("No statement parsing implemented")

\* The body of the loop of parse_input over the seat arguments, for one
\* seat given as its parts.
parse_seat(parts) ==
    LET role == IF eq_ignore_ascii_case(parts[1], "?") THEN Ok("None")
                ELSE parse_role(parts[1])
        conf == IF Len(parts) <= 1 \/ eq_ignore_ascii_case(parts[2], "?")
                THEN Ok("None")
                ELSE parse_role(parts[2])
        obs == IF Len(parts) <= 2
                  \/ eq_ignore_ascii_case(parts[3], "?")
                  \/ eq_ignore_ascii_case(parts[3], "unrevealed")
               THEN Ok(NoStatement)
               ELSE IF role.v = "None"
               THEN Err("Cannot provide statement for unrevealed role")
               ELSE parse_statement(role.v, parts[3])
    IN  IF ~role.ok THEN Err("Invalid visible role")
        ELSE IF ~conf.ok THEN Err("Invalid confirmed role")
        ELSE IF ~obs.ok THEN Err("Invalid statement")
        ELSE Ok([visible |-> role.v, confirmed |-> conf.v, observed |-> obs.v])

RECURSIVE parse_seats(_)
parse_seats(seats) ==
    IF seats = <<>> THEN Ok(<<>>)
    ELSE LET first == parse_seat(Head(seats))
         IN  IF ~first.ok THEN first
             ELSE LET rest == parse_seats(Tail(seats))
                  IN  IF ~rest.ok THEN rest ELSE Ok(<<first.v>> \o rest.v)

\* parse_input on the arguments left after --validate was taken out.
parse_input(args) ==
    IF args.short THEN Err("Usage")
    ELSE LET d == parse_roles(args.deck)
             counts == [k \in 1..4 |-> parse_usize(args.counts[k])]
             seats == parse_seats(args.seats)
         IN  IF ~d.ok THEN Err("Failed to parse deck")
             ELSE IF \E k \in 1..4 : ~counts[k].ok THEN Err("Invalid count")
             ELSE IF ~seats.ok THEN seats
             ELSE Ok([deck |-> d.v,
                      counts |-> [k \in 1..4 |-> counts[k].v],
                      seats |-> seats.v])

run_args(args) ==
    LET none == [stdout |-> <<>>, stderr |-> <<>>, called |-> "none", exit |-> 0]
    IN  IF args.validate = "last"
        THEN [none EXCEPT !.stderr = <<"Error: --validate requires a candidate argument">>,
                          !.exit = 1]
        ELSE IF args.validate = "given" /\ ~parse_roles(args.candidate).ok
        THEN [none EXCEPT !.stderr = <<"Failed to parse candidate roles">>, !.exit = 1]
        ELSE IF ~parse_input(args).ok
        THEN [none EXCEPT !.stdout = <<parse_input(args).e>>]
        ELSE IF args.validate = "given"
        THEN [none EXCEPT !.called = "validate_candidate"]
        ELSE [none EXCEPT !.called = "brute_force_solve"]

DeckArgs == {<<"confessor", "Knight", " minion">>, <<"confessor", "imp">>}

CountArgs == {"1", "x"}

SeatArgs ==
    {<<"?">>, <<"Knight">>, <<"imp">>, <<"confessor", "dragon">>,
     <<"confessor", "?", "iamgood">>, <<"confessor", "minion", "IAmGood">>,
     <<"knight", "?", "iamgood">>, <<"?", "?", "iamdizzy">>}

InitRunner ==
    /\ NoSolve
    /\ pc = "call"
    /\ arg_true_roles = <<>>
    /\ arg_position = 0
    /\ ret_distance = -1
    /\ ret_direction = "None"
    /\ \E validate \in {"absent", "last", "given"} :
       \E candidate \in IF validate = "given" THEN DeckArgs ELSE {<<>>} :
           \/ call = [fn |-> "run_args", validate |-> validate, candidate |-> candidate,
                      short |-> TRUE, deck |-> <<>>, counts |-> <<>>, seats |-> <<>>]
           \/ \E d \in DeckArgs :
              \E counts \in [1..4 -> CountArgs] :
              \E len \in 0..MaxSeatArgs :
              \E seats \in [1..len -> SeatArgs] :
                  call = [fn |-> "run_args", validate |-> validate,
                          candidate |-> candidate, short |-> FALSE,
                          deck |-> d, counts |-> counts, seats |-> seats]
    /\ ret = "None"

RunArgs ==
    /\ pc = "call"
    /\ call.fn = "run_args"
    /\ ret' = run_args(call)
    /\ pc' = "returned"
    /\ UNCHANGED <<solver, arg_true_roles, arg_position, ret_distance, ret_direction, call>>

NextRunner == RunArgs

SpecRunner == InitRunner /\ [][NextRunner]_vars

(***************************************************************************)
(* The closure of lines 43-141 on one worker, step by step: the loop of    *)
(* line 73, the recursion of permute_multiset (src/src/solver.rs, 278-329) *)
(* and the recursion of assign_disguises_and_check (340-390), with the     *)
(* worker's scratch buffers perm_current, wretch_assign and                *)
(* disguise_assign of lines 51-53.  call names the worker; ret is the      *)
(* machine: the call stack, the buffers, the HashMap of line 81, the value *)
(* the last call returned (returned) and the calls of on_complete so far   *)
(* (tries).  A frame keeps the buffers it was entered with.                *)
(***************************************************************************)
Top(stack) == stack[Len(stack)]

Pop(stack) == SubSeq(stack, 1, Len(stack) - 1)

ReplaceTop(stack, frame) == [stack EXCEPT ![Len(stack)] = frame]

\* A frame of permute_multiset: j keys of the loop of line 315 are done,
\* await is set while the call of line 325 runs, cnt is the local of 316.
permute_frame(m) ==
    [fn |-> "permute_multiset", j |-> 0, await |-> FALSE, cnt |-> 0,
     entry_counts |-> m.counts, entry_current |-> m.perm_current]

\* A frame of assign_disguises_and_check at seat pos: w Wretch choices and
\* d disguise choices of the loops of lines 358 and 361 are started, pushed
\* is set between lines 359 and 386, await while the call of 368 runs.
assign_frame(m, pos) ==
    [fn |-> "assign_disguises_and_check", pos |-> pos, w |-> 0, d |-> 0,
     pushed |-> FALSE, await |-> FALSE,
     entry_wretch |-> m.wretch_assign, entry_disguise |-> m.disguise_assign]

\* Lines 81-95: the HashMap and its keys are built and permute_multiset is
\* called on the worker's perm_current.
start_enumeration(m, combined, keys) ==
    LET m1 == [m EXCEPT !.combined = combined, !.keys = keys,
                        !.counts = role_counts(combined),
                        !.job = @ + 1, !.returned = "none"]
    IN  [m1 EXCEPT !.stack = <<permute_frame(m1)>>]

\* Lines 288-312 when the closure goes on to assign_disguises_and_check:
\* the choices of line 102 are built and the search is called at seat 0.
enter_search(m, v_combo) ==
    LET choices == build_choices(m.perm_current, deck_minions, deck_non_evil,
                                 deck_villagers_in_play(m.combined, v_combo),
                                 deck_villager_not_in_play(v_combo))
        m1 == [m EXCEPT !.stack = ReplaceTop(@, [Top(@) EXCEPT !.await = TRUE]),
                        !.candidate = m.perm_current,
                        !.wretch_choices = choices[1],
                        !.disguise_choices = choices[2],
                        !.returned = "none"]
    IN  [m1 EXCEPT !.stack = Append(@, assign_frame(m1, 0))]

\* A return of permute_multiset or of the closure of line 95.
return_unit(m) == [m EXCEPT !.stack = Pop(@), !.returned = "unit"]

\* Lines 316-319: a key whose count is zero is passed over.
skip_key(m) ==
    [m EXCEPT !.stack = ReplaceTop(@, [Top(@) EXCEPT !.j = @ + 1])]

\* Lines 322-325: the key is consumed and pushed, and the function recurses.
descend(m) ==
    LET f == Top(m.stack)
        k == m.keys[f.j + 1]
        m1 == [m EXCEPT !.counts = [@ EXCEPT ![k] = @ - 1],
                        !.perm_current = Append(@, k),
                        !.stack = ReplaceTop(@, [f EXCEPT !.j = @ + 1,
                                                          !.await = TRUE,
                                                          !.cnt = m.counts[k]])]
    IN  [m1 EXCEPT !.stack = Append(@, permute_frame(m1))]

\* Lines 327-328, after the recursive call: the key is popped and its
\* count restored.
ascend(m) ==
    LET f == Top(m.stack)
        k == m.keys[f.j]
    IN  [m EXCEPT !.perm_current = Pop(@),
                  !.counts = [@ EXCEPT ![k] = f.cnt],
                  !.stack = ReplaceTop(@, [f EXCEPT !.await = FALSE]),
                  !.returned = "none"]

\* Lines 349-351 and 118-131: on_complete on the full assignments.
complete(m, success) ==
    [m EXCEPT !.stack = Pop(@),
              !.returned = success,
              !.tries = Append(@, [job |-> m.job, candidate |-> m.candidate,
                                   wretch |-> m.wretch_assign,
                                   disguise |-> m.disguise_assign,
                                   success |-> success])]

\* Lines 358-359: the next Wretch choice is pushed.
push_wretch(m) ==
    LET f == Top(m.stack)
    IN  [m EXCEPT !.wretch_assign =
                      Append(@, At(m.wretch_choices, f.pos)[f.w + 1]),
                  !.stack = ReplaceTop(@, [f EXCEPT !.w = @ + 1, !.d = 0,
                                                    !.pushed = TRUE])]

\* Lines 361-365: a disguise choice the visible role rules out is passed over.
skip_disguise(m) ==
    [m EXCEPT !.stack = ReplaceTop(@, [Top(@) EXCEPT !.d = @ + 1])]

\* Lines 367-376: the disguise choice is pushed and the search recurses.
push_disguise(m) ==
    LET f == Top(m.stack)
        m1 == [m EXCEPT !.disguise_assign =
                            Append(@, At(m.disguise_choices, f.pos)[f.d + 1]),
                        !.stack = ReplaceTop(@, [f EXCEPT !.d = @ + 1,
                                                          !.await = TRUE])]
    IN  [m1 EXCEPT !.stack = Append(@, assign_frame(m1, f.pos + 1))]

\* child_returned that goes on with the next choice after a success.
child_returned_exhaustive(m) ==
    [m EXCEPT !.disguise_assign = Pop(@),
              !.stack = ReplaceTop(@, [Top(@) EXCEPT !.await = FALSE]),
              !.returned = "none"]

\* child_returned that returns at a success without popping wretch_assign.
child_returned_without_pop(m) ==
    IF m.returned = "true"
    THEN [m EXCEPT !.disguise_assign = Pop(@),
                   !.stack = Pop(@)]
    ELSE [m EXCEPT !.disguise_assign = Pop(@),
                   !.stack = ReplaceTop(@, [Top(@) EXCEPT !.await = FALSE]),
                   !.returned = "none"]

\* Lines 377-383, after the recursive call: the disguise is popped; at a
\* success the Wretch choice is popped too and the function returns true.
child_returned(m) ==
    IF m.returned = "true"
    THEN [m EXCEPT !.disguise_assign = Pop(@),
                   !.wretch_assign = Pop(@),
                   !.stack = Pop(@)]
    ELSE [m EXCEPT !.disguise_assign = Pop(@),
                   !.stack = ReplaceTop(@, [Top(@) EXCEPT !.await = FALSE]),
                   !.returned = "none"]

\* Line 386: the disguise choices are exhausted, the Wretch choice is popped.
pop_wretch(m) ==
    [m EXCEPT !.wretch_assign = Pop(@),
              !.stack = ReplaceTop(@, [Top(@) EXCEPT !.pushed = FALSE])]

\* Line 389: the Wretch choices are exhausted.
return_false(m) == [m EXCEPT !.stack = Pop(@), !.returned = "false"]

\* The tables the worker is run on: those of Scenarios with a deck of three
\* cards and three tables whose Minion or Wretch has several assignments
\* that satisfy the statements.
SearchScenarios ==
    {sc \in Scenarios : Len(sc.deck) <= 3} \cup
    {[deck |-> <<"Knight", "Confessor", "Minion">>,
      quotas |-> <<1, 0, 1, 0>>,
      visible |-> <<"None", "Confessor">>,
      confirmed |-> <<"None", "None">>,
      observed |-> <<NoStatement, NoStatement>>],
     [deck |-> <<"Confessor", "Wretch", "Minion", "Poisoner">>,
      quotas |-> <<1, 1, 1, 0>>,
      visible |-> <<"None", "None", "None">>,
      confirmed |-> <<"None", "None", "None">>,
      observed |-> <<[kind |-> "Confessor", v |-> "IAmGood"], NoStatement,
                     NoStatement>>],
     [deck |-> <<"Knight", "Confessor", "Minion">>,
      quotas |-> <<2, 0, 1, 0>>,
      visible |-> <<"None", "None", "Knight">>,
      confirmed |-> <<"None", "None", "None">>,
      observed |-> <<NoStatement, [kind |-> "Confessor", v |-> "IAmDizzy"],
                     NoStatement>>]}

SearchInput ==
    \E sc \in SearchScenarios :
        /\ deck = sc.deck
        /\ villagers = sc.quotas[1]
        /\ outcasts = sc.quotas[2]
        /\ minions = sc.quotas[3]
        /\ demons = sc.quotas[4]
        /\ visible_roles = sc.visible
        /\ confirmed_roles = sc.confirmed
        /\ observed_statements = sc.observed

\* Lines 50-53: the closure starts on one Villager combination with an
\* empty local vector and empty buffers.
InitSearch ==
    /\ SearchInput
    /\ Start
    /\ arg_true_roles = <<>>
    /\ arg_position = 0
    /\ ret_distance = -1
    /\ ret_direction = "None"
    /\ \E w \in Workers : call = [fn |-> "search", w |-> w]
    /\ ret = [stack |-> <<>>, job |-> 0, combined |-> <<>>, keys |-> <<>>,
              counts |-> <<>>, perm_current |-> <<>>, wretch_assign |-> <<>>,
              disguise_assign |-> <<>>, candidate |-> <<>>,
              wretch_choices |-> <<>>, disguise_choices |-> <<>>,
              returned |-> "none", tries |-> <<>>]

Searching == pc = "running" /\ call.fn = "search"

InFrame(fn) == Searching /\ ret.stack # <<>> /\ Top(ret.stack).fn = fn

SearchFrame == <<inputs, todo, local_valid, accepted, result, pc, arg_true_roles, arg_position, ret_distance, ret_direction, call>>

\* Line 73: the next multiset of the worker, for one order of the keys.
StartEnumeration ==
    /\ Searching
    /\ ret.stack = <<>>
    /\ todo[call.w] # <<>>
    /\ \E keys \in key_orders(Head(todo[call.w])) :
           ret' = start_enumeration(ret, Head(todo[call.w]), keys)
    /\ todo' = [todo EXCEPT ![call.w] = Tail(@)]
    /\ UNCHANGED <<inputs, local_valid, accepted, result, pc, arg_true_roles, arg_position, ret_distance, ret_direction, call>>

\* Lines 288-312: a complete permutation is dropped by the Counsellor check
\* or by confirmed_roles_ok, or the search of its assignments is called.
Leaf ==
    /\ InFrame("permute_multiset")
    /\ ~Top(ret.stack).await
    /\ Len(Top(ret.stack).entry_current) = n
    /\ ret' = IF counsellor_ok(ret.perm_current)
                 /\ confirmed_roles_ok(ret.perm_current, confirmed_roles)
              THEN enter_search(ret, villager_combos[call.w])
              ELSE return_unit(ret)
    /\ UNCHANGED SearchFrame

\* Line 312: the closure has returned.
LeafReturns ==
    /\ InFrame("permute_multiset")
    /\ Top(ret.stack).await
    /\ Len(Top(ret.stack).entry_current) = n
    /\ ret.returned # "none"
    /\ ret' = return_unit(ret)
    /\ UNCHANGED SearchFrame

SkipKey ==
    /\ InFrame("permute_multiset")
    /\ ~Top(ret.stack).await
    /\ Len(Top(ret.stack).entry_current) # n
    /\ Top(ret.stack).j < Len(ret.keys)
    /\ ret.counts[ret.keys[Top(ret.stack).j + 1]] = 0
    /\ ret' = skip_key(ret)
    /\ UNCHANGED SearchFrame

Descend ==
    /\ InFrame("permute_multiset")
    /\ ~Top(ret.stack).await
    /\ Len(Top(ret.stack).entry_current) # n
    /\ Top(ret.stack).j < Len(ret.keys)
    /\ ret.counts[ret.keys[Top(ret.stack).j + 1]] # 0
    /\ ret' = descend(ret)
    /\ UNCHANGED SearchFrame

Ascend ==
    /\ InFrame("permute_multiset")
    /\ Top(ret.stack).await
    /\ Len(Top(ret.stack).entry_current) # n
    /\ ret.returned # "none"
    /\ ret' = ascend(ret)
    /\ UNCHANGED SearchFrame

\* Line 329: the loop over the keys is over.
PermuteReturns ==
    /\ InFrame("permute_multiset")
    /\ ~Top(ret.stack).await
    /\ Len(Top(ret.stack).entry_current) # n
    /\ Top(ret.stack).j = Len(ret.keys)
    /\ ret' = return_unit(ret)
    /\ UNCHANGED SearchFrame

\* Lines 349-351 with the closure of lines 118-131: statements_match on
\* the full assignments; a success pushes the candidate on local_valid; a
\* panic of can_produce_statement ends the run.
Complete ==
    /\ InFrame("assign_disguises_and_check")
    /\ Top(ret.stack).pos = n
    /\ \E success \in {statements_match(ret.candidate, ret.wretch_assign,
                                        ret.disguise_assign, observed_statements)} :
           /\ pc' = IF success = "panic" THEN "panicked" ELSE pc
           /\ ret' = IF success = "panic" THEN ret ELSE complete(ret, success)
           /\ local_valid' = IF success = "true"
                             THEN [local_valid EXCEPT ![call.w] = Append(@, ret.candidate)]
                             ELSE local_valid
           /\ accepted' = IF success = "true"
                          THEN [accepted EXCEPT ![call.w] =
                                   Append(@, [wretch |-> ret.wretch_assign,
                                              disguise |-> ret.disguise_assign,
                                              v_combo |-> villager_combos[call.w],
                                              combined |-> ret.combined])]
                          ELSE accepted
    /\ UNCHANGED <<inputs, todo, result, arg_true_roles, arg_position, ret_distance, ret_direction, call>>

PushWretch ==
    /\ InFrame("assign_disguises_and_check")
    /\ Top(ret.stack).pos # n
    /\ ~Top(ret.stack).await
    /\ ~Top(ret.stack).pushed
    /\ Top(ret.stack).w < Len(At(ret.wretch_choices, Top(ret.stack).pos))
    /\ ret' = push_wretch(ret)
    /\ UNCHANGED SearchFrame

SkipDisguise ==
    /\ InFrame("assign_disguises_and_check")
    /\ Top(ret.stack).pos # n
    /\ ~Top(ret.stack).await
    /\ Top(ret.stack).pushed
    /\ Top(ret.stack).d < Len(At(ret.disguise_choices, Top(ret.stack).pos))
    /\ At(visible_roles, Top(ret.stack).pos) # "None"
    /\ At(visible_roles, Top(ret.stack).pos)
           # At(ret.disguise_choices, Top(ret.stack).pos)[Top(ret.stack).d + 1]
    /\ ret' = skip_disguise(ret)
    /\ UNCHANGED SearchFrame

PushDisguise ==
    /\ InFrame("assign_disguises_and_check")
    /\ Top(ret.stack).pos # n
    /\ ~Top(ret.stack).await
    /\ Top(ret.stack).pushed
    /\ Top(ret.stack).d < Len(At(ret.disguise_choices, Top(ret.stack).pos))
    /\ \/ At(visible_roles, Top(ret.stack).pos) = "None"
       \/ At(visible_roles, Top(ret.stack).pos)
              = At(ret.disguise_choices, Top(ret.stack).pos)[Top(ret.stack).d + 1]
    /\ ret' = push_disguise(ret)
    /\ UNCHANGED SearchFrame

ChildReturned ==
    /\ InFrame("assign_disguises_and_check")
    /\ Top(ret.stack).pos # n
    /\ Top(ret.stack).await
    /\ ret.returned \in {"true", "false"}
    /\ ret' = child_returned(ret)
    /\ UNCHANGED SearchFrame

PopWretch ==
    /\ InFrame("assign_disguises_and_check")
    /\ Top(ret.stack).pos # n
    /\ ~Top(ret.stack).await
    /\ Top(ret.stack).pushed
    /\ Top(ret.stack).d = Len(At(ret.disguise_choices, Top(ret.stack).pos))
    /\ ret' = pop_wretch(ret)
    /\ UNCHANGED SearchFrame

ReturnFalse ==
    /\ InFrame("assign_disguises_and_check")
    /\ Top(ret.stack).pos # n
    /\ ~Top(ret.stack).await
    /\ ~Top(ret.stack).pushed
    /\ Top(ret.stack).w = Len(At(ret.wretch_choices, Top(ret.stack).pos))
    /\ ret' = return_false(ret)
    /\ UNCHANGED SearchFrame

\* Line 139: the loops are over and the closure returns local_valid.
SearchDone ==
    /\ Searching
    /\ ret.stack = <<>>
    /\ todo[call.w] = <<>>
    /\ pc' = "done"
    /\ UNCHANGED <<inputs, todo, local_valid, accepted, result, arg_true_roles, arg_position, ret_distance, ret_direction, call, ret>>

NextSearch ==
    \/ StartEnumeration
    \/ Leaf
    \/ LeafReturns
    \/ SkipKey
    \/ Descend
    \/ Ascend
    \/ PermuteReturns
    \/ Complete
    \/ PushWretch
    \/ SkipDisguise
    \/ PushDisguise
    \/ ChildReturned
    \/ PopWretch
    \/ ReturnFalse
    \/ SearchDone

SpecSearch == InitSearch /\ [][NextSearch]_vars

(***************************************************************************)
(* Both branches of can_produce_statement (src/src/roles.rs, 1487-1985) on *)
(* one world, for a seat that shows Hunter, Enlightened, Jester,           *)
(* FortuneTeller, Scout or Judge and a statement of that role's variant,   *)
(* on tables of 1 to MaxNegationTable seats.  The speaker is the role it   *)
(* shows or a Minion in disguise; the other seats are Knights, Minions and *)
(* Pookas, the evil ones showing Knight or Confessor; only good seats are  *)
(* corrupted.  Only the Judge's arms read the corruption bitmap and the    *)
(* disguises, so the bitmap and the faces of the evil seats vary in the    *)
(* Judge's calls only.  Seat indexes in statements are seats of the table. *)
(***************************************************************************)
MaxNegationTable == 3

NegationFaces == {"Hunter", "Enlightened", "Jester", "FortuneTeller", "Scout", "Judge"}

NegationTableRoles == {"Knight", "Minion", "Pooka"}

own_statements(visible_role, len) ==
    LET seats == 0..(len - 1)
    IN  CASE visible_role = "Hunter" ->
                 {[kind |-> "Hunter", distance |-> d] : d \in 0..len}
          [] visible_role = "Enlightened" ->
                 {[kind |-> "Enlightened", v |-> v] :
                     v \in {"Equidistant", "CounterClockwise", "Clockwise"}}
          [] visible_role = "Jester" ->
                 {[kind |-> "Jester", target_indexes |-> t, evil_count |-> c] :
                     t \in SUBSET seats \ {{}}, c \in 0..len}
          [] visible_role = "FortuneTeller" ->
                 {[kind |-> "FortuneTeller", target_indexes |-> t, is_evil |-> b] :
                     t \in {x \in SUBSET seats : Cardinality(x) \in 1..2}, b \in BOOLEAN}
          [] visible_role = "Judge" ->
                 {[kind |-> "Judge", target_index |-> t, is_lying |-> b] :
                     t \in seats, b \in BOOLEAN}
          [] visible_role = "Scout" ->
                 {[kind |-> "Scout", role |-> r, distance |-> d] :
                     r \in {"None", "Knight", "Minion", "Pooka"}, d \in 0..len}

InitNegation ==
    /\ NoSolve
    /\ pc = "call"
    /\ arg_true_roles = <<>>
    /\ arg_position = 0
    /\ ret_distance = -1
    /\ ret_direction = "None"
    /\ \E len \in 1..MaxNegationTable :
       \E table \in [1..len -> NegationTableRoles] :
       \E position \in 0..(len - 1) :
       \E visible_role \in NegationFaces :
       \E statement \in own_statements(visible_role, len) :
       \E faces \in [1..len -> {"Knight", "Confessor"}] :
       \E corruptions \in [1..len -> BOOLEAN] :
           /\ visible_role # "Judge" =>
                  /\ \A k \in 1..len : faces[k] = "Knight"
                  /\ \A k \in 1..len : ~corruptions[k]
           /\ \A k \in 1..len :
                  /\ (table[k] = "Knight" \/ k = position + 1) => faces[k] = "Knight"
                  /\ alignment(table[k]) = "Evil" => ~corruptions[k]
           /\ call = [fn |-> "negation",
                      visible_role |-> visible_role,
                      true_roles |->
                          [k \in 1..len |->
                              IF k = position + 1 /\ table[k] = "Knight"
                              THEN visible_role ELSE table[k]],
                      disguised_roles |->
                          [k \in 1..len |-> IF k = position + 1 THEN visible_role
                                            ELSE faces[k]],
                      corruptions |-> corruptions,
                      drunk_uncorruptions |-> [k \in 1..len |-> 0],
                      position |-> position,
                      statement |-> statement]
    /\ ret = "None"

\* The two branches on the arguments of one call.
ProduceBoth ==
    /\ pc = "call"
    /\ call.fn = "negation"
    /\ ret' = [lying |-> can_produce_statement(
                             call.visible_role, TRUE, call.true_roles,
                             call.disguised_roles, call.corruptions,
                             call.drunk_uncorruptions, call.position, call.statement),
               truthful |-> can_produce_statement(
                             call.visible_role, FALSE, call.true_roles,
                             call.disguised_roles, call.corruptions,
                             call.drunk_uncorruptions, call.position, call.statement)]
    /\ pc' = "returned"
    /\ UNCHANGED <<solver, arg_true_roles, arg_position, ret_distance, ret_direction, call>>

NextNegation == ProduceBoth

SpecNegation == InitNegation /\ [][NextNegation]_vars

(***************************************************************************)
(* Properties of brute_force_solve.                                        *)
(***************************************************************************)
Results == 1..Len(result)

Seats == 0..(n - 1)

\* The assignments on_complete accepted the k-th returned world with: the
\* local vectors and their assignments are concatenated in the same order.
AllAccepted == Flatten([w \in Workers |-> accepted[w]])

occurrences(s, r) == Cardinality({k \in DOMAIN s : s[k] = r})

group_count(world, g) == Len(filter_group(world, g))

\* Some pair of the corruption engine satisfies every observed statement of
\* the world under the assignments wa and da.
Explains(world, wa, da) ==
    \E b \in 1..Len(execute_corruption(world, wa)) :
        LET pair == execute_uncorruption(world, da, execute_corruption(world, wa)[b])
        IN  \A i \in Seats :
                At(observed_statements, i) # NoStatement =>
                    /\ ~can_produce_statement_panics(At(da, i))
                    /\ can_produce_statement(
                           At(da, i), lying(At(world, i)) \/ At(pair[1], i),
                           wa, da, pair[1], pair[2], i, At(observed_statements, i))

\* wa replaces the Wretches of the world, and nothing else.
ReplacesWretches(world, wa) ==
    /\ Len(wa) = Len(world)
    /\ \A k \in DOMAIN world : world[k] # "Wretch" => wa[k] = world[k]

\* C1 (soundness): every returned world has a Wretch assignment, a disguise
\* assignment and a (post-clearing bitmap, cleared counts) pair of the
\* corruption engine under which can_produce_statement, called with the
\* seat's disguise and with lying = role lies by default or seat corrupted,
\* accepts the observed statement of every seat that has one.
C1_Soundness ==
    pc = "done" =>
        \A k \in Results :
            /\ ReplacesWretches(result[k], AllAccepted[k].wretch)
            /\ Len(AllAccepted[k].disguise) = n
            /\ Explains(result[k], AllAccepted[k].wretch, AllAccepted[k].disguise)

\* A world is returned whose statement at some seat is judged as a lie, for
\* the role lies by default or for the seat is corrupted in every bitmap.
C1_Witness ==
    /\ pc = "done"
    /\ \E k \in Results : \E i \in Seats :
           /\ At(observed_statements, i) # NoStatement
           /\ \/ lying(At(result[k], i))
              \/ \A b \in 1..Len(execute_corruption(result[k], AllAccepted[k].wretch)) :
                     At(execute_corruption(result[k], AllAccepted[k].wretch)[b], i)

\* The disguise rules: what the role at seat k (1-based) of the world may show.
MayShow(world, k, d) ==
    IF world[k] = "DoppelGanger"
    THEN group(d) = "Villager" /\ contains(world, d)
    ELSE IF group(world[k]) \in {"Villager", "Outcast"} THEN d = world[k]
    ELSE IF group(world[k]) = "Minion" THEN contains(deck, d) /\ alignment(d) # "Evil"
    ELSE contains(deck, d) /\ group(d) = "Villager" /\ ~contains(world, d)

HonoursVisible(da) ==
    \A k \in 1..n : visible_roles[k] = "None" \/ visible_roles[k] = da[k]

\* The worlds the game allows for the inputs.  The quotas are read as the
\* search applies them: a world without Counsellor holds the quotas, a world
\* with a Counsellor holds one Villager less and one Outcast more, next to
\* the Counsellor.
ConsistentWorld(world) ==
    /\ \A r \in Range(world) : occurrences(world, r) <= occurrences(deck, r)
    /\ LET shift == IF contains(world, "Counsellor") THEN 1 ELSE 0
       IN  /\ group_count(world, "Villager") = villagers - shift
           /\ group_count(world, "Outcast") = outcasts + shift
           /\ group_count(world, "Minion") = minions
           /\ group_count(world, "Demon") = demons
    /\ contains(world, "Counsellor") =>
           \E i \in Seats :
               /\ At(world, i) = "Counsellor"
               /\ \E j \in Range(neighbor_indexes(n, i, 1)) :
                      group(At(world, j)) = "Outcast"
    /\ \A k \in 1..n : confirmed_roles[k] = "None" \/ confirmed_roles[k] = world[k]
    /\ \E wa \in [1..n -> Range(deck)] :
           /\ \A k \in 1..n :
                  IF world[k] = "Wretch" THEN group(wa[k]) = "Minion"
                  ELSE wa[k] = world[k]
           /\ \E da \in [1..n -> Range(deck)] :
                  /\ \A k \in 1..n : MayShow(world, k, da[k])
                  /\ HonoursVisible(da)
                  /\ Explains(world, wa, da)

\* C2 (completeness), as claimed: every world of length N that realises the
\* quotas from the deck, matches the confirmed locks and has a Wretch
\* assignment, a disguise assignment allowed by the disguise rules and the
\* visible locks, and a corruption pair satisfying every observed statement,
\* is in the returned list.
C2_Complete ==
    pc = "done" =>
        \A world \in [1..n -> Range(deck)] :
            ConsistentWorld(world) => \E k \in Results : result[k] = world

\* C3, as claimed: every returned world holds exactly nVillagers Villagers,
\* nOutcasts Outcasts, nMinions Minions and nDemons Demons.
C3_Quotas ==
    pc = "done" =>
        \A k \in Results :
            /\ group_count(result[k], "Villager") = villagers
            /\ group_count(result[k], "Outcast") = outcasts
            /\ group_count(result[k], "Minion") = minions
            /\ group_count(result[k], "Demon") = demons

\* C3, amended: every returned world holds exactly nMinions Minions and
\* nDemons Demons; it holds nVillagers Villagers and nOutcasts Outcasts when
\* it holds no Counsellor, and nVillagers - 1 Villagers and nOutcasts + 1
\* Outcasts when it holds a Counsellor (the Counsellor substitution).
C3_QuotasWithCounsellor ==
    pc = "done" =>
        \A k \in Results :
            LET shift == IF contains(result[k], "Counsellor") THEN 1 ELSE 0
            IN  /\ Len(result[k]) = n
                /\ group_count(result[k], "Villager") = villagers - shift
                /\ group_count(result[k], "Outcast") = outcasts + shift
                /\ group_count(result[k], "Minion") = minions
                /\ group_count(result[k], "Demon") = demons

\* Worlds with and without a Counsellor have been returned.
C3_Witness ==
    /\ pc = "done"
    /\ villagers > 0
    /\ \E k \in Results : contains(result[k], "Counsellor")

\* The input of test_confirmed.
TestConfirmed ==
    /\ deck = <<"Knight", "Minion">>
    /\ <<villagers, outcasts, minions, demons>> = <<1, 0, 1, 0>>
    /\ visible_roles = <<"Knight", "Knight">>
    /\ confirmed_roles = <<"Knight", "None">>
    /\ observed_statements = <<NoStatement, NoStatement>>

\* C4: a returned world has the confirmed role at every seat that has one;
\* on the input of test_confirmed every returned world has the Minion at
\* seat 1 and the list is not empty.
C4_Confirmed ==
    pc = "done" =>
        /\ \A k \in Results : \A i \in 1..n :
               confirmed_roles[i] # "None" => result[k][i] = confirmed_roles[i]
        /\ TestConfirmed =>
               /\ result # <<>>
               /\ \A k \in Results : result[k][2] = "Minion"

\* The call on the input of test_confirmed has returned.
C4_Witness == pc = "done" /\ TestConfirmed /\ result # <<>>

\* C5: the disguise assignment a returned world was accepted with shows the
\* visible role at every seat with a visible lock and obeys the disguise
\* rules: a Villager or Outcast other than DoppelGanger shows its own role,
\* a Minion a non-Evil role of the deck, a Demon a Villager role of the deck
\* that is not in play.
C5_Disguises ==
    pc = "done" =>
        \A k \in Results :
            LET world == result[k]
                da == AllAccepted[k].disguise
            IN  /\ Len(da) = n
                /\ HonoursVisible(da)
                /\ \A i \in 1..n :
                       /\ (group(world[i]) \in {"Villager", "Outcast"}
                           /\ world[i] # "DoppelGanger") => da[i] = world[i]
                       /\ group(world[i]) = "Minion" =>
                              contains(deck, da[i]) /\ alignment(da[i]) # "Evil"
                       /\ group(world[i]) = "Demon" =>
                              /\ contains(deck, da[i])
                              /\ group(da[i]) = "Villager"
                              /\ ~contains(world, da[i])

\* A world is returned with a Demon behind a visible lock.
C5_Witness ==
    /\ pc = "done"
    /\ \E k \in Results : \E i \in 1..n :
           /\ group(result[k][i]) = "Demon"
           /\ visible_roles[i] # "None"

\* C6, as claimed: the returned list never holds the same world twice.
C6_NoDuplicates ==
    pc = "done" =>
        \A j \in Results : \A k \in Results : j # k => result[j] # result[k]

\* The worlds worker w must find: a function of the inputs and of its
\* Villager combination only, whatever the order of the keys and of the
\* workers' steps.
WorkerSolutions(w) ==
    LET combos == generate_role_combinations(deck, villagers, outcasts, minions, demons)
        jobs == worker_jobs(villager_combos[w], combos)
    IN  UNION {{c \in [1..n -> Range(jobs[j])] :
                   /\ \A r \in Range(jobs[j]) :
                          occurrences(c, r) = occurrences(jobs[j], r)
                   /\ counsellor_ok(c)
                   /\ process_candidate(c, jobs[j], villager_combos[w]).success = "true"}
               : j \in DOMAIN jobs}

\* C7 (determinism): the returned list is the concatenation of the workers'
\* lists, and the set of worlds of each worker's list depends on the inputs
\* only, not on the interleaving of the workers nor on the order of the keys.
C7_Deterministic ==
    pc = "done" =>
        /\ result = Flatten([w \in Workers |-> local_valid[w]])
        /\ \A w \in Workers : Range(local_valid[w]) = WorkerSolutions(w)

\* Two workers or more have each found worlds among more than one
\* permutation.
C7_Witness ==
    /\ pc = "done"
    /\ Len(villager_combos) >= 2
    /\ n >= 2
    /\ \A w \in Workers : local_valid[w] # <<>>

\* The empty input: no card, no seat.
EmptyInput == deck = <<>> /\ n = 0 /\ villagers + outcasts + minions + demons = 0

\* C8: on the empty input the returned list holds exactly one world, the
\* empty sequence.
C8_EmptyInput == (pc = "done" /\ EmptyInput) => result = << <<>> >>

\* The call on the empty input has returned.
C8_Witness == pc = "done" /\ EmptyInput

\* The cases of over-constrained input C9 names: a visible role no seat can
\* show (no seat shows an Evil role), an observed statement of another role
\* than the seat's visible role, an observed statement at a seat whose face
\* has no statement semantics.
OverConstrained ==
    \E k \in 1..n :
        \/ visible_roles[k] # "None" /\ alignment(visible_roles[k]) = "Evil"
        \/ /\ observed_statements[k] # NoStatement
           /\ visible_roles[k] # "None"
           /\ observed_statements[k].kind # visible_roles[k]
        \/ /\ observed_statements[k] # NoStatement
           /\ visible_roles[k] # "None"
           /\ can_produce_statement_panics(visible_roles[k])

\* C9, as claimed: on an over-constrained input brute_force_solve never
\* panics and returns the empty list.
C9_NoPanic ==
    OverConstrained => /\ pc # "panicked"
                       /\ pc = "done" => result = <<>>

(***************************************************************************)
(* Properties of the geometry helpers.                                     *)
(***************************************************************************)
NoEvil(roles) == \A k \in DOMAIN roles : alignment(roles[k]) # "Evil"

\* C10: when no seat of the table is Evil, closest_evil_distance returns the
\* table size N and closest_evil_direction returns Equidistant, at every
\* position and for every N >= 1.
C10_NoEvil ==
    (pc = "returned" /\ NoEvil(arg_true_roles)) =>
        /\ ret_distance = Len(arg_true_roles)
        /\ ret_direction = "Equidistant"

\* The helpers have returned for a seat other than seat 0 of a table of
\* three seats or more without Evil.
C10_Witness ==
    /\ pc = "returned"
    /\ NoEvil(arg_true_roles)
    /\ Len(arg_true_roles) >= 3
    /\ arg_position > 0

\* The input of finds_minion_with_typed_statements.
FindsMinion ==
    /\ deck = <<"Confessor", "Confessor", "Minion">>
    /\ <<villagers, outcasts, minions, demons>> = <<2, 0, 1, 0>>
    /\ visible_roles = <<"Confessor", "Confessor", "Confessor">>
    /\ observed_statements = <<[kind |-> "Confessor", v |-> "IAmGood"],
                               [kind |-> "Confessor", v |-> "IAmGood"],
                               [kind |-> "Confessor", v |-> "IAmDizzy"]>>

\* What a seat that shows Confessor says.
confession(is_lying) ==
    [kind |-> "Confessor", v |-> IF is_lying THEN "IAmDizzy" ELSE "IAmGood"]

\* C14: in every returned world, under one bitmap of the corruption engine,
\* each seat that shows Confessor and has a statement said IAmGood when it
\* speaks truthfully and IAmDizzy when it lies (its role lies by default or
\* the seat is corrupted); and on the input of
\* finds_minion_with_typed_statements exactly one world is returned,
\* [Confessor, Confessor, Minion].
C14_Confessor ==
    pc = "done" =>
        /\ \A k \in Results :
               LET world == result[k]
                   wa == AllAccepted[k].wretch
                   da == AllAccepted[k].disguise
               IN  \E b \in 1..Len(execute_corruption(world, wa)) :
                       LET pair == execute_uncorruption(
                                       world, da, execute_corruption(world, wa)[b])
                       IN  \A i \in Seats :
                               (At(da, i) = "Confessor"
                                /\ At(observed_statements, i) # NoStatement) =>
                                   At(observed_statements, i) =
                                       confession(lying(At(world, i)) \/ At(pair[1], i))
        /\ FindsMinion => result = <<<<"Confessor", "Confessor", "Minion">>>>

\* The call on the input of finds_minion_with_typed_statements has returned
\* a world whose Minion shows Confessor and says IAmDizzy.
C14_Witness ==
    /\ pc = "done"
    /\ FindsMinion
    /\ \E k \in Results :
           /\ result[k][3] = "Minion"
           /\ AllAccepted[k].disguise[3] = "Confessor"

\* The two tables of a Wretch next to a speaker.
HunterByWretch ==
    /\ deck = <<"Hunter", "Wretch", "Minion">>
    /\ observed_statements = <<[kind |-> "Hunter", distance |-> 1], NoStatement>>

GemcrafterByWretch ==
    /\ deck = <<"Gemcrafter", "Wretch", "Minion">>
    /\ observed_statements = <<[kind |-> "Gemcrafter", target_index |-> 1], NoStatement>>

\* The world with every Wretch taken for a Minion.
AsMinion(world) ==
    [k \in 1..Len(world) |-> IF world[k] = "Wretch" THEN "Minion" ELSE world[k]]

\* Every observed statement of the returned world k is accepted when the
\* other seats are seen as the roles of view, under one pair of the
\* corruption engine.
Judged(k, view) ==
    LET world == result[k]
        wa == AllAccepted[k].wretch
        da == AllAccepted[k].disguise
    IN  \E b \in 1..Len(execute_corruption(world, wa)) :
            LET pair == execute_uncorruption(world, da, execute_corruption(world, wa)[b])
            IN  \A i \in Seats :
                    At(observed_statements, i) # NoStatement =>
                        /\ ~can_produce_statement_panics(At(da, i))
                        /\ can_produce_statement(
                               At(da, i), lying(At(world, i)) \/ At(pair[1], i),
                               view, da, pair[1], pair[2], i, At(observed_statements, i))

\* C16: when another seat's statement is evaluated a Wretch counts as what
\* it truly is, an Outcast-group Good seat: the statements of every
\* returned world are accepted on its true roles, the Hunter next to a
\* Wretch and no Evil seat may not say that Evil is 1 seat away, and the
\* Gemcrafter may say that the Wretch seat is good.
C16_WretchIsOutcast ==
    pc = "done" =>
        /\ \A k \in Results : Judged(k, result[k])
        /\ HunterByWretch => result = <<>>
        /\ GemcrafterByWretch => result # <<>>

\* C16, amended: when another seat's statement is evaluated a Wretch counts
\* as a Minion-group Evil seat: the statements of every returned world are
\* accepted on its roles with each Wretch taken for a Minion of the deck,
\* the Hunter next to a Wretch may say that Evil is 1 seat away, and the
\* Gemcrafter may not say that the Wretch seat is good.
C16_WretchIsMinion ==
    pc = "done" =>
        /\ \A k \in Results :
               /\ \A i \in 1..n :
                      result[k][i] = "Wretch" =>
                          /\ group(AllAccepted[k].wretch[i]) = "Minion"
                          /\ contains(deck, AllAccepted[k].wretch[i])
               /\ Judged(k, AsMinion(result[k]))
        /\ HunterByWretch =>
               \E k \in Results : result[k] = <<"Hunter", "Wretch">>
        /\ GemcrafterByWretch => result = <<>>

\* The call on the Hunter's table has returned the world in which the Hunter
\* sits next to the Wretch.
C16_Witness ==
    /\ pc = "done"
    /\ HunterByWretch
    /\ \E k \in Results :
           /\ result[k] = <<"Hunter", "Wretch">>
           /\ AllAccepted[k].wretch = <<"Hunter", "Minion">>

\* The multisets worker w has visited when the call returns.
JobsOf(w) ==
    worker_jobs(villager_combos[w],
                generate_role_combinations(deck, villagers, outcasts, minions, demons))

\* C19: the disguise choices built for a DoppelGanger seat of a visited
\* multiset are exactly the Villager roles of that multiset, and a call
\* without locks and statements whose deck holds a DoppelGanger returns, for
\* quotas of at least one Villager and one Outcast, a world that contains
\* the DoppelGanger.
C19_DoppelGanger ==
    pc = "done" =>
        /\ \A w \in Workers : \A j \in 1..Len(JobsOf(w)) :
               LET combined == JobsOf(w)[j]
                   choices == build_choices(
                                  combined, deck_minions, deck_non_evil,
                                  deck_villagers_in_play(combined, villager_combos[w]),
                                  deck_villager_not_in_play(villager_combos[w]))
               IN  \A k \in 1..Len(combined) :
                       combined[k] = "DoppelGanger" =>
                           Range(choices[2][k]) =
                               {r \in Range(combined) : group(r) = "Villager"}
        /\ (/\ deck = <<"Knight", "DoppelGanger", "Minion">>
            /\ <<villagers, outcasts, minions, demons>> = <<1, 1, 0, 0>>
            /\ \A i \in 1..n : /\ visible_roles[i] = "None"
                                /\ confirmed_roles[i] = "None"
                                /\ observed_statements[i] = NoStatement)
               => \E k \in Results : contains(result[k], "DoppelGanger")

\* The multisets enumerated for the Villager combination v and the subsets
\* o, m and d are the base multiset when m holds no Counsellor, and
\* otherwise one variant for each pair of a position of v and a deck position
\* of an Outcast role that is not in o: the base with that Villager replaced
\* by that Outcast.
SubstitutesOnce(v, o, m, d) ==
    LET base == v \o o \o m \o d
        variants == generate_role_variations(v, o, m, d, outcasts_not_in_play(o),
                                             contains(m, "Counsellor"))
        spare == {p \in DOMAIN deck : group(deck[p]) = "Outcast" /\ ~contains(o, deck[p])}
        variant(i, p) == [k \in 1..Len(base) |-> IF k = i THEN deck[p] ELSE base[k]]
    IN  IF ~contains(m, "Counsellor") THEN variants = <<base>>
        ELSE /\ Len(variants) = Len(v) * Cardinality(spare)
             /\ \A i \in 1..Len(v) : \A p \in spare :
                    \E x \in 1..Len(variants) : variants[x] = variant(i, p)
             /\ \A x \in 1..Len(variants) :
                    \E i \in 1..Len(v) : \E p \in spare :
                        /\ group(v[i]) = "Villager"
                        /\ variants[x] = variant(i, p)

\* C20: what is left for worker w to visit is a tail of the multisets
\* enumerated for its Villager combination, and those are, for each choice of
\* the Outcast, Minion and Demon subsets, the unmodified base multiset when
\* the Minion subset holds no Counsellor and otherwise the base with exactly
\* one Villager replaced by an Outcast role of the deck that is not in the
\* Outcast subset, one variant per (Villager, Outcast) pair.
C20_Counsellor ==
    pc \in {"running", "done"} =>
        \A w \in Workers :
            LET combos == generate_role_combinations(deck, villagers, outcasts,
                                                     minions, demons)
            IN  /\ \E done \in 0..Len(JobsOf(w)) :
                       todo[w] = SubSeq(JobsOf(w), done + 1, Len(JobsOf(w)))
                /\ \A a \in 1..Len(combos[2]) : \A b \in 1..Len(combos[3]) :
                   \A c \in 1..Len(combos[4]) :
                       SubstitutesOnce(villager_combos[w], combos[2][a],
                                       combos[3][b], combos[4][c])

\* A world was accepted from a multiset in which the Counsellor substitution
\* replaced one of two Villagers by one of the two Outcasts of the deck.
C20_Witness ==
    /\ pc = "done"
    /\ villagers = 2
    /\ Len(filter_group(deck, "Outcast")) = 2
    /\ \E w \in Workers : \E k \in 1..Len(accepted[w]) :
           /\ contains(accepted[w][k].combined, "Counsellor")
           /\ group_count(accepted[w][k].combined, "Outcast") = outcasts + 1
           /\ group_count(accepted[w][k].combined, "Villager") = 1

\* C21: no returned world contains a Counsellor seat whose two direct
\* neighbours on the circular table are both of another group than Outcast
\* by true role.
C21_CounsellorPruned ==
    pc = "done" =>
        \A k \in Results : \A i \in Seats :
            At(result[k], i) = "Counsellor" =>
                \/ group(At(result[k], (i + n - 1) % n)) = "Outcast"
                \/ group(At(result[k], (i + 1) % n)) = "Outcast"

(***************************************************************************)
(* Properties of the role catalog.                                         *)
(***************************************************************************)
\* C11: a Villager or Outcast role is Good, a Minion or Demon role is Evil;
\* lying(role) equals (alignment(role) = Evil) for every role but two,
\* Puppet (Evil, does not lie) and Drunk (Good, lies).
C11_Catalog ==
    pc = "returned" /\ call.fn = "catalog" =>
        /\ ret.group \in {"Villager", "Outcast"} => ret.alignment = "Good"
        /\ ret.group \in {"Minion", "Demon"} => ret.alignment = "Evil"
        /\ ret.group \in {"Villager", "Outcast", "Minion", "Demon"}
        /\ call.role \notin {"Puppet", "Drunk"} =>
               ret.lying = (ret.alignment = "Evil")
        /\ call.role = "Puppet" => ret.alignment = "Evil" /\ ~ret.lying
        /\ call.role = "Drunk" => ret.alignment = "Good" /\ ret.lying

\* The three functions have returned for one of the two exceptions.
C11_Witness ==
    /\ pc = "returned"
    /\ call.fn = "catalog"
    /\ call.role \in {"Puppet", "Drunk"}

(***************************************************************************)
(* Properties of the corruption engine.                                    *)
(***************************************************************************)
\* C12: in every bitmap the engine produces for a candidate, before and
\* after the Alchemist clearing, every corrupted seat has a Villager true
\* role: no Outcast (Wretch included), Minion or Demon seat is corrupted,
\* whatever face it shows.
C12_VillagersOnly ==
    pc = "returned" /\ call.fn = "corruption" =>
        \A k \in 1..Len(ret) : \A i \in 1..Len(call.candidate) :
            (ret[k].pre_corruption[i] \/ ret[k].pair[1][i]) =>
                group(call.candidate[i]) = "Villager"

\* A table holds a Wretch next to a Pooka, the Pooka corrupts its other
\* neighbour and an Alchemist clears that seat.
C12_Witness ==
    /\ pc = "returned"
    /\ call.fn = "corruption"
    /\ \E k \in 1..Len(ret) : \E i \in 1..Len(call.candidate) :
           /\ ret[k].pre_corruption[i]
           /\ ~ret[k].pair[1][i]
    /\ \E i \in 0..(Len(call.candidate) - 1) :
           /\ At(call.candidate, i) = "Pooka"
           /\ \E j \in Range(neighbor_indexes(Len(call.candidate), i, 1)) :
                  At(call.candidate, j) = "Wretch"

Corrupted == pc = "returned" /\ call.fn = "corruption"

Bitmaps == 1..Len(ret)

CorruptionSeats == 0..(Len(call.candidate) - 1)

\* C22: in every bitmap of execute_corruption every Villager-group seat at
\* offset 1 from a Pooka is corrupted, whatever the other electors chose.
C22_PookaCorruptsAll ==
    Corrupted =>
        \A k \in Bitmaps : \A i \in CorruptionSeats :
            At(call.candidate, i) = "Pooka" =>
                \A j \in CorruptionSeats :
                    (j \in {(i + 1) % Len(call.candidate),
                            (i + Len(call.candidate) - 1) % Len(call.candidate)}
                     /\ group(At(call.candidate, j)) = "Villager")
                        => At(ret[k].pre_corruption, j)

\* A Pooka next to a Villager, and another elector that corrupted a seat
\* that is not next to the Pooka.
C22_Witness ==
    /\ Corrupted
    /\ \E i \in CorruptionSeats : \E j \in CorruptionSeats : \E k \in Bitmaps :
           /\ At(call.candidate, i) = "Pooka"
           /\ group(At(call.candidate, (i + 1) % Len(call.candidate))) = "Villager"
           /\ j \notin {(i + 1) % Len(call.candidate),
                         (i + Len(call.candidate) - 1) % Len(call.candidate)}
           /\ At(ret[k].pre_corruption, j)

\* The Poisoner of seat i is the only elector of the table.
OnlyPoisoner(i) ==
    /\ At(call.candidate, i) = "Poisoner"
    /\ \A j \in CorruptionSeats \ {i} :
           At(call.candidate, j) \notin {"Poisoner", "Pooka", "PlagueDoctor"}

\* The Villager-group seats at offset 1 from seat i.
VillagersBeside(i) ==
    {j \in CorruptionSeats :
        /\ j \in {(i + 1) % Len(call.candidate),
                   (i + Len(call.candidate) - 1) % Len(call.candidate)}
        /\ group(At(call.candidate, j)) = "Villager"}

C23_WitnessNone ==
    /\ Corrupted
    /\ \E i \in CorruptionSeats : OnlyPoisoner(i) /\ VillagersBeside(i) = {}

\* C24: the bitmaps of execute_corruption are pairwise distinct.
C24_Distinct ==
    Corrupted =>
        \A k \in Bitmaps : \A l \in Bitmaps :
            ret[k].pre_corruption = ret[l].pre_corruption => k = l

\* The seats at offset 1 or 2 from seat i.
Within2(i) ==
    {(i + o) % Len(call.candidate) : o \in {1, 2}}
        \cup {(i + 2 * Len(call.candidate) - o) % Len(call.candidate) : o \in {1, 2}}

SumOver(f) ==
    LET RECURSIVE sum(_)
        sum(k) == IF k = 0 THEN 0 ELSE f[k] + sum(k - 1)
    IN  sum(Len(f))

\* The Alchemist clearing of one pair, made from the bitmap pre: a truthful
\* seat that shows Alchemist and is uncorrupted in pre leaves no corrupted
\* seat at offset 1 or 2; a seat that cannot clear has the count 0, and no
\* count exceeds the corrupted seats the seat reaches; the post-clearing
\* bitmap is a subset of pre; the counts sum to the number of bits removed.
Cleared(pre, post, cleared) ==
    /\ \A i \in CorruptionSeats :
           (/\ At(call.disguise_assign, i) = "Alchemist"
            /\ ~At(pre, i)
            /\ ~lying(At(call.candidate, i)))
               => \A j \in Within2(i) : ~At(post, j)
    /\ \A i \in CorruptionSeats :
           /\ (At(call.disguise_assign, i) # "Alchemist" \/ lying(At(call.candidate, i)))
                  => At(cleared, i) = 0
           /\ At(cleared, i) <= Cardinality({j \in Within2(i) : At(pre, j) /\ ~At(post, j)})
    /\ \A j \in CorruptionSeats : At(post, j) => At(pre, j)
    /\ SumOver(cleared) = Cardinality({j \in CorruptionSeats : At(pre, j) /\ ~At(post, j)})

\* C25: for every bitmap of execute_corruption, the pair execute_uncorruption
\* returns is the Alchemist clearing of that bitmap: no corrupted seat is left
\* at offset 1 or 2 from a truthful, uncorrupted seat that shows Alchemist,
\* the cleared counts are the numbers of removed corruptions, 0 for the
\* seats that removed none, the post-clearing bitmap is a subset of the
\* pre-clearing bitmap and the counts sum to the number of bits removed.
C25_Clearing ==
    Corrupted =>
        \A k \in Bitmaps :
            Cleared(ret[k].pre_corruption, ret[k].pair[1], ret[k].pair[2])

\* On a table of three seats, where offsets 1 and 2 reach the same seats, an
\* Alchemist removed the one corruption of the table.
C25_Witness ==
    /\ Corrupted
    /\ Len(call.candidate) = 3
    /\ \E k \in Bitmaps : \E i \in CorruptionSeats :
           /\ At(ret[k].pair[2], i) = 1
           /\ Cardinality({j \in CorruptionSeats : At(ret[k].pre_corruption, j)}) = 1
           /\ \A j \in CorruptionSeats : ~At(ret[k].pair[1], j)

(***************************************************************************)
(* Properties of can_produce_statement.                                    *)
(***************************************************************************)
SilentRoles == {"Knight", "Bombardier", "Wretch", "Poet", "Baker", "Witness"}

Returned == pc = "returned" /\ call.fn = "can_produce_statement"

\* C13: for a seat that shows a silent role (Knight, Bombardier, Wretch,
\* Poet, Baker, Witness) the truthful and the lying branch both accept
\* NoStatement and reject every other statement.
C13_Silent ==
    (Returned /\ call.visible_role \in SilentRoles)
        => ret = (IF call.statement = NoStatement THEN "true" ELSE "false")

\* The pairs of adjacent seats of the circular table that are both Evil.
circular_evil_pairs(true_roles) ==
    LET len == Len(true_roles)
    IN  {{k, (k + 1) % len} : k \in {j \in 0..(len - 1) :
            /\ alignment(At(true_roles, j)) = "Evil"
            /\ alignment(At(true_roles, (j + 1) % len)) = "Evil"}}

\* C17: the truthful Knitter predicate accepts k exactly when k is the
\* number of pairs of adjacent seats that are both Evil, counted around the
\* circular table (the pair of seat N-1 and seat 0 included).
C17_KnitterCircular ==
    (Returned /\ call.visible_role = "Knitter" /\ ~call.is_lying
     /\ call.statement.kind = "Knitter") =>
        (ret = "true" <=>
             call.statement.adjacent_count =
                 Cardinality(circular_evil_pairs(call.true_roles)))

\* rotate_right(1) of the table: the role of seat i moves to seat i + 1.
rotated(true_roles) ==
    [k \in 1..Len(true_roles) |->
        true_roles[IF k = 1 THEN Len(true_roles) ELSE k - 1]]

\* C18: the answer the truthful Architect predicate accepts is determined
\* relative to the speaker's seat: the call on the table rotated by one seat,
\* with the speaker moved along, accepts the same statement.
C18_ArchitectRotation ==
    (Returned /\ call.visible_role = "Architect" /\ ~call.is_lying) =>
        (ret = "true" <=>
             can_produce_statement(
                 "Architect", FALSE, rotated(call.true_roles),
                 rotated(call.disguised_roles), rotated(call.corruptions),
                 rotated(call.drunk_uncorruptions),
                 (call.position + 1) % Len(call.true_roles), call.statement))

(***************************************************************************)
(* Properties of the command-line front end.                               *)
(***************************************************************************)
RoleNames == {"confessor", "knight", "minion", "baker"}

Numerals == {"0", "1", "2"}

UnknownRole(token) == to_lowercase(trim(token)) \notin RoleNames

\* The seat argument names an unknown role or carries a statement that does
\* not parse for its visible role.
IllFormedSeat(parts) ==
    LET unlocked(token) == to_lowercase(trim(token)) \in {"?", ""}
        silent(token) == to_lowercase(token) \in {"?", "unrevealed"}
    IN  \/ ~unlocked(parts[1]) /\ UnknownRole(parts[1])
        \/ Len(parts) >= 2 /\ ~unlocked(parts[2]) /\ UnknownRole(parts[2])
        \/ /\ Len(parts) >= 3
           /\ ~silent(parts[3])
           /\ \/ ~parse_role(parts[1]).ok
              \/ parse_role(parts[1]).v = "None"
              \/ ~parse_statement(parse_role(parts[1]).v, parts[3]).ok

Malformed(args) ==
    \/ args.validate = "last"
    \/ \E k \in DOMAIN args.candidate : UnknownRole(args.candidate[k])
    \/ args.short
    \/ \E k \in DOMAIN args.deck : UnknownRole(args.deck[k])
    \/ \E k \in DOMAIN args.counts : args.counts[k] \notin Numerals
    \/ \E k \in DOMAIN args.seats : IllFormedSeat(args.seats[k])

Tries == 1..Len(ret.tries)

SameSearch(k, l) ==
    /\ ret.tries[k].job = ret.tries[l].job
    /\ ret.tries[k].candidate = ret.tries[l].candidate

Successes ==
    LET ok(t) == t.success = "true" IN SelectSeq(ret.tries, ok)

\* C26: within one enumeration of a multiset, no assignment of a seat
\* permutation is tried after one of its assignments has satisfied the
\* statements; the permutation is appended to local_valid at that call of
\* on_complete, and so at most once per enumeration.
C26_EarlyExit ==
    /\ \A k, l \in Tries :
           (k < l /\ SameSearch(k, l)) => ret.tries[k].success = "false"
    /\ local_valid[call.w] = [k \in 1..Len(Successes) |-> Successes[k].candidate]
    /\ \A k, l \in 1..Len(Successes) :
           (k < l /\ Successes[k].job = Successes[l].job)
               => Successes[k].candidate # Successes[l].candidate

\* C26 witness: the worker has finished, and a permutation was appended at
\* the only assignment tried for it although another disguise of one of
\* its seats satisfies the statements as well.
C26_Witness ==
    /\ pc = "done"
    /\ call.fn = "search"
    /\ \E k \in Tries :
           /\ ret.tries[k].success = "true"
           /\ \A l \in Tries : SameSearch(k, l) => l = k
           /\ ret.tries[k].candidate \in Range(local_valid[call.w])
           /\ \E i \in 1..n : \E d \in Range(deck_non_evil) :
                  /\ group(ret.tries[k].candidate[i]) = "Minion"
                  /\ d # ret.tries[k].disguise[i]
                  /\ visible_roles[i] \in {"None", d}
                  /\ statements_match(ret.tries[k].candidate, ret.tries[k].wretch,
                                      [ret.tries[k].disguise EXCEPT ![i] = d],
                                      observed_statements) = "true"

\* C30: a call of permute_multiset returns with counts and current as they
\* were at its entry; a call of assign_disguises_and_check returns, at a
\* success as at exhaustion, with wretch_assign and disguise_assign as long
\* as at its entry; and the worker starts every enumeration with an empty
\* perm_current and every search of a permutation's assignments with empty
\* wretch_assign and disguise_assign.
C30_BuffersRestored ==
    [][(Searching /\ ret.stack # <<>> /\ Len(ret'.stack) < Len(ret.stack)
           => IF Top(ret.stack).fn = "permute_multiset"
              THEN /\ ret'.counts = Top(ret.stack).entry_counts
                   /\ ret'.perm_current = Top(ret.stack).entry_current
              ELSE /\ Len(ret'.wretch_assign) = Len(Top(ret.stack).entry_wretch)
                   /\ Len(ret'.disguise_assign) = Len(Top(ret.stack).entry_disguise))
       /\ (Searching /\ ret.stack = <<>> /\ ret'.stack # <<>>
              => ret'.perm_current = <<>>)
       /\ (Searching /\ ret.stack # <<>> /\ Len(ret'.stack) > Len(ret.stack)
              /\ Top(ret.stack).fn = "permute_multiset"
              /\ Top(ret'.stack).fn = "assign_disguises_and_check"
              => ret'.wretch_assign = <<>> /\ ret'.disguise_assign = <<>>)]_vars

\* C30 witness: the worker is between two enumerations; in the first one a
\* search returned at a success and another one exhausted its choices, and
\* the three buffers are empty.
C30_Witness ==
    /\ pc = "running"
    /\ call.fn = "search"
    /\ ret.stack = <<>>
    /\ todo[call.w] # <<>>
    /\ \E k \in Tries : ret.tries[k].success = "true"
    /\ \E k \in Tries :
           \A l \in Tries : SameSearch(k, l) => ret.tries[l].success = "false"
    /\ \E k \in Tries : \E i \in 1..n : ret.tries[k].candidate[i] = "Wretch"
    /\ ret.perm_current = <<>>
    /\ ret.wretch_assign = <<>>
    /\ ret.disguise_assign = <<>>

(***************************************************************************)
(* Properties of the two branches of can_produce_statement (SpecNegation). *)
(***************************************************************************)
\* C27: for a seat that shows Hunter, Enlightened, Jester, FortuneTeller,
\* Scout or Judge and a statement of that role's own variant, the lying
\* branch accepts the statement exactly when the truthful branch rejects it.
C27_LieNegates ==
    (pc = "returned" /\ call.fn = "negation") => (ret.lying = ~ret.truthful)

\* C27 witness: a lying Scout's sighting of the only evil seat, which the
\* truthful branch rejects because a lone evil is reported without a role.
C27_Witness ==
    /\ pc = "returned"
    /\ call.fn = "negation"
    /\ call.visible_role = "Scout"
    /\ call.statement.role # "None"
    /\ count_evil(call.true_roles) = 1
    /\ \E idx \in 0..(Len(call.true_roles) - 1) :
           /\ At(call.true_roles, idx) = call.statement.role
           /\ call.statement.distance = closest_evil_distance(call.true_roles, idx)
           /\ alignment(At(call.true_roles, idx)) = "Evil"
    /\ ret.lying
    /\ ~ret.truthful

(***************************************************************************)
(* The corruption engine on a rotated table (SpecCorruption).              *)
(***************************************************************************)
\* execute_corruption followed by execute_uncorruption on every bitmap, as
\* statements_match calls them: the set of the pairs obtained.
corruption_pairs(true_roles, wretch_assign, disguise_assign) ==
    LET pre == execute_corruption(true_roles, wretch_assign)
    IN  {execute_uncorruption(true_roles, disguise_assign, pre[k]) : k \in 1..Len(pre)}

\* C29: rotating the candidate (true roles, Wretch roles and disguises) by
\* one seat rotates by one seat the set of (post-clearing bitmap, cleared
\* counts) pairs of the corruption engine.
C29_RotationInvariant ==
    Corrupted =>
        corruption_pairs(rotated(call.candidate), rotated(call.wretch_assign),
                         rotated(call.disguise_assign))
            = {<<rotated(ret[k].pair[1]), rotated(ret[k].pair[2])>> : k \in Bitmaps}

(***************************************************************************)
(* brute_force_solve on a weakened input (Spec).                           *)
(***************************************************************************)
\* The closure of lines 95-133 for one candidate, on the given visible
\* roles, confirmed roles and statements instead of those of the call.
closure_on(candidate, combined, v_combo, visible, confirmed, observed) ==
    IF ~confirmed_roles_ok(candidate, confirmed) THEN "false"
    ELSE LET choices == build_choices(candidate, deck_minions, deck_non_evil,
                                      deck_villagers_in_play(combined, v_combo),
                                      deck_villager_not_in_play(v_combo))
         IN  assign_disguises_and_check(candidate, choices[1], choices[2], visible,
                                        <<>>, <<>>, 0, observed).success

\* brute_force_solve on the deck and quotas of the call and the given
\* visible roles, confirmed roles and statements: whether a call of the
\* closure panics, and the set of the worlds pushed otherwise.
solve_on(visible, confirmed, observed) ==
    LET combos == generate_role_combinations(deck, villagers, outcasts, minions, demons)
        calls == UNION {UNION {{[candidate |-> c, combined |-> combined, w |-> w] :
                                   c \in Range(permute_multiset(role_counts(combined),
                                                first_order(combined), <<>>, Len(visible)))} :
                               combined \in Range(worker_jobs(combos[1][w], combos))} :
                        w \in 1..Len(combos[1])}
        outcome(c) == closure_on(c.candidate, c.combined, combos[1][c.w],
                                 visible, confirmed, observed)
    IN  [panics |-> \E c \in calls : outcome(c) = "panic",
         worlds |-> {c.candidate : c \in {x \in calls : outcome(x) = "true"}}]

\* The inputs that differ from the call's in one entry, which is unknown
\* (None, NoStatement) where the call's is set.
Weakened ==
    {[visible |-> [visible_roles EXCEPT ![i] = "None"],
      confirmed |-> confirmed_roles, observed |-> observed_statements] :
         i \in {k \in 1..n : visible_roles[k] # "None"}}
    \cup
    {[visible |-> visible_roles,
      confirmed |-> [confirmed_roles EXCEPT ![i] = "None"],
      observed |-> observed_statements] :
         i \in {k \in 1..Len(confirmed_roles) : confirmed_roles[k] # "None"}}
    \cup
    {[visible |-> visible_roles, confirmed |-> confirmed_roles,
      observed |-> [observed_statements EXCEPT ![i] = NoStatement]] :
         i \in {k \in 1..n : observed_statements[k] # NoStatement}}

\* C28: when the call has returned, the call on an input weakened in one
\* entry returns too, and every world of the result is among its worlds.
C28_Monotone ==
    pc = "done" =>
        \A wk \in Weakened :
            \E r \in {solve_on(wk.visible, wk.confirmed, wk.observed)} :
                /\ ~r.panics
                /\ \A k \in Results : result[k] \in r.worlds

\* The same, for the weakened inputs on which the call returns.
C28_MonotoneWhenReturns ==
    pc = "done" =>
        \A wk \in Weakened :
            \E r \in {solve_on(wk.visible, wk.confirmed, wk.observed)} :
                r.panics \/ \A k \in Results : result[k] \in r.worlds

====
